---- MODULE Spec2Model ----
(***************************************************************************)
(* ccl (Claude Code Log viewer): the record pipeline of main.go,           *)
(* filter.go and display.go.                                               *)
(*                                                                         *)
(* A transcript is a file of newline-terminated JSON lines.  Three         *)
(* functions read it: processStreaming (one pass), processBuffered (read   *)
(* everything, then display) and processFollowMode (discovery pass,        *)
(* processBuffered over the history, then a poll loop over what a writer   *)
(* appends).  Every decoded record goes through collectToolUseInfo (the    *)
(* tool_use id -> name table) and displayEntryWithToolInfo (filter, then   *)
(* render).                                                                *)
(*                                                                         *)
(* Strings that the glob matcher looks into (tool names, patterns) are     *)
(* sequences of one-character strings; strings only compared for equality  *)
(* (record types, roles, ids) are TLA+ strings.                            *)
(***************************************************************************)
EXTENDS Integers, Sequences, FiniteSets, TLC

\* Longest transcript, in lines, that the writer produces.
MaxLines == 2
\* Longest content array of a record handed to the filter alone.
MaxBlocks == 2

(***************************************************************************)
(* JSON values, as far as the code looks at them                           *)
(***************************************************************************)
\* A field that is missing or whose value is not a string.
NoStr == "<absent>"
\* A tool name that is missing or not a string (no real name has this character).
NoName == <<"<absent>">>
\* The empty Go string, as a tool name: what a map lookup of a missing key yields.
EmptyName == <<>>
\* An "input" field that is missing or not an object.
NoInput == "<absent>"

Bash == <<"B", "a", "s", "h">>
Edit == <<"E", "d", "i", "t">>
Read == <<"R", "e", "a", "d">>
Write == <<"W", "r", "i", "t", "e">>
TodoWrite == <<"T", "o", "d", "o", "W", "r", "i", "t", "e">>
PatStarEdit == <<"*", "E", "d", "i", "t">>
PatStar == <<"*">>

\* One element of message.content.  type is NoStr for an element that is not
\* an object (or has no string type).
Block(t, id, name, input, tuid) ==
    [type |-> t, id |-> id, name |-> name, input |-> input, tool_use_id |-> tuid]

TextBlock == Block("text", NoStr, NoName, NoInput, NoStr)
NonObject == Block(NoStr, NoStr, NoName, NoInput, NoStr)
ToolUse(id, name, input) == Block("tool_use", id, name, input, NoStr)
ToolResult(tuid) == Block("tool_result", NoStr, NoName, NoInput, tuid)

\* A "timestamp" field that is missing, not a string or not RFC 3339.
NoTime == <<>>
\* A "timestamp" field that time.Parse accepts, as the instant it denotes.
Stamp(t) == <<t>>
\* The zero time.Time (0001-01-01T00:00:00Z), for which IsZero() holds.
ZeroTime == 0
\* No field beyond those the pipeline looks at.
NoExtra == [kind |-> "absent", chars |-> <<>>]

\* One decoded line.  message is "object" or NoStr; content is "string",
\* "array" or NoStr; blocks is the content array (empty unless "array").
\* uuid identifies the line of the transcript the record was decoded from.
\* timestamp is NoTime or Stamp(t); extra is a field the pipeline does not
\* look at.
Entry(uuid, t, message, content, blocks, parent) ==
    [uuid |-> uuid, type |-> t, message |-> message, content |-> content,
     blocks |-> blocks, parentMessageId |-> parent, timestamp |-> NoTime,
     extra |-> NoExtra]

At(entry, timestamp) == [entry EXCEPT !.timestamp = timestamp]

With(entry, extra) == [entry EXCEPT !.extra = extra]

\* No call of a display.go function.
NoRun ==
    [fn |-> "none", arg |-> NoExtra, toolName |-> <<>>, toolUseResult |-> "nil",
     done |-> FALSE, result |-> <<>>]

\* The flags' default values, main.go:50-61.
DefaultCfg ==
    [Role |-> {}, ToolFilter |-> {}, ToolExclude |-> {}, OutputFormat |-> "text",
     ShowTiming |-> FALSE, Compact |-> FALSE, Verbose |-> FALSE]

(***************************************************************************)
(* Go maps with string keys                                                *)
(***************************************************************************)
EmptyMap == [k \in {} |-> EmptyName]

MapPut(m, k, v) == [x \in (DOMAIN m) \cup {k} |-> IF x = k THEN v ELSE m[x]]

\* m[k] of a map[string]string: the zero value "" for a missing key.
MapGet(m, k) == IF k \in DOMAIN m THEN m[k] ELSE EmptyName

(***************************************************************************)
(* filter.go: glob matching and the tool include/exclude predicate         *)
(***************************************************************************)
RECURSIVE matchGlobRecursive(_, _, _, _)
matchGlobRecursive(pattern, str, pIdx, sIdx) ==
    IF pIdx = Len(pattern) /\ sIdx = Len(str) THEN TRUE
    ELSE IF pIdx = Len(pattern) THEN FALSE
    ELSE IF pattern[pIdx + 1] = "*"
         THEN \E i \in sIdx..Len(str) : matchGlobRecursive(pattern, str, pIdx + 1, i)
    ELSE IF sIdx = Len(str) THEN FALSE
    ELSE IF pattern[pIdx + 1] = "?" \/ pattern[pIdx + 1] = str[sIdx + 1]
         THEN matchGlobRecursive(pattern, str, pIdx + 1, sIdx + 1)
    ELSE FALSE

matchGlobPattern(pattern, str) == matchGlobRecursive(pattern, str, 0, 0)

isToolExcluded(toolName, excludeList) ==
    \E pattern \in excludeList : matchGlobPattern(pattern, toolName)

isToolFiltered(toolName, filterList) ==
    \/ filterList = {}
    \/ \E pattern \in filterList : matchGlobPattern(pattern, toolName)

\* A variant in which a match of the include list wins over the exclude list.
applyToolFiltersIncludeFirst(toolName, includeList, excludeList) ==
    IF includeList # {} /\ isToolFiltered(toolName, includeList) THEN TRUE
    ELSE ~isToolExcluded(toolName, excludeList)

applyToolFilters(toolName, includeList, excludeList) ==
    IF isToolExcluded(toolName, excludeList) THEN FALSE
    ELSE isToolFiltered(toolName, includeList)

(***************************************************************************)
(* State                                                                   *)
(***************************************************************************)
VARIABLES
    mode,          \* which of processStreaming / processBuffered / processFollowMode runs
    cfg,           \* the global cfg: Role, ToolFilter, ToolExclude (parsed lists)
    script,        \* the lines the transcript's writer produces, in order
    file,          \* the bytes of the transcript written so far
    pc,            \* position of the reading function
    fpos,          \* the open file's read offset
    sbuf,          \* bufio.Scanner: bytes read and not yet returned as a line
    eof,           \* bufio.Scanner: a read has returned io.EOF
    toolUseMap,    \* toolUseMap of processStreaming / processFollowMode
    toolInputMap,  \* toolInputMap of processStreaming / processFollowMode
    bufUseMap,     \* toolUseMap local to processBuffered
    bufInputMap,   \* toolInputMap local to processBuffered
    entries,       \* entries local to processBuffered
    di,            \* index of the second-pass loop of processBuffered
    currentPos,    \* currentPos of processFollowMode
    statSize,      \* stat.Size() of the current poll
    out,           \* what has been printed, one item per rendered record
    lastTimestamp, \* the global lastTimestamp of display.go
    err,           \* the function's result: "running", "nil" or an error's text
    fEntry,        \* a record handed to the filter alone
    fMap,          \* the table handed to the filter alone
    fResult,       \* the filter's answer for fEntry: "unset", "accept", "reject"
    before,        \* <<toolUseMap, toolInputMap>> as they were when fEntry was observed
    glob,          \* a call of matchGlobPattern or applyToolFilters alone: arguments, result
    call           \* a call of a display.go function alone: function, arguments, result

vars == <<mode, cfg, script, file, pc, fpos, sbuf, eof, toolUseMap, toolInputMap,
          bufUseMap, bufInputMap, entries, di, currentPos, statSize, out,
          lastTimestamp, err, fEntry, fMap, fResult, before, glob, call>>

(***************************************************************************)
(* filter.go: which records are displayed                                  *)
(***************************************************************************)
\* cfg.Role, cfg.ToolFilter and cfg.ToolExclude after parseCommaSeparated.
filterRoles == cfg.Role
toolFilterList == cfg.ToolFilter
toolExcludeList == cfg.ToolExclude

shouldDisplayEntry(msgType, entry) ==
    IF filterRoles = {} THEN TRUE ELSE msgType \in filterRoles

shouldDisplayToolResult(entry, useMap) ==
    LET toolName == MapGet(useMap, entry.parentMessageId)
    IN  IF toolName = EmptyName
        THEN IF toolFilterList # {} THEN FALSE ELSE TRUE
        ELSE applyToolFilters(toolName, toolFilterList, toolExcludeList)

getToolName(m, useMap) ==
    IF m.id # NoStr /\ MapGet(useMap, m.id) # EmptyName THEN MapGet(useMap, m.id)
    ELSE IF m.name # NoName THEN m.name
    ELSE EmptyName

\* A variant that lets a content array without tool_use blocks through.
shouldDisplayAssistantTextToo(entry, useMap) ==
    IF toolFilterList = {} /\ toolExcludeList = {} THEN TRUE
    ELSE IF entry.message # "object" THEN TRUE
    ELSE IF entry.content # "array" THEN TRUE
    ELSE \/ \A i \in 1..Len(entry.blocks) : entry.blocks[i].type # "tool_use"
         \/ \E i \in 1..Len(entry.blocks) :
                /\ entry.blocks[i].type = "tool_use"
                /\ applyToolFilters(getToolName(entry.blocks[i], useMap),
                                    toolFilterList, toolExcludeList)

shouldDisplayAssistantWithTools(entry, useMap) ==
    IF toolFilterList = {} /\ toolExcludeList = {} THEN TRUE
    ELSE IF entry.message # "object" THEN TRUE
    ELSE IF entry.content # "array" THEN TRUE
    ELSE \E i \in 1..Len(entry.blocks) :
            /\ entry.blocks[i].type = "tool_use"
            /\ applyToolFilters(getToolName(entry.blocks[i], useMap),
                                toolFilterList, toolExcludeList)

hasToolResult(entry) ==
    /\ entry.message = "object"
    /\ entry.content = "array"
    /\ \E i \in 1..Len(entry.blocks) : entry.blocks[i].type = "tool_result"

\* Index of the first tool_result block of a content array (0 if there is none).
FirstToolResult(blocks) ==
    IF \E i \in 1..Len(blocks) : blocks[i].type = "tool_result"
    THEN CHOOSE i \in 1..Len(blocks) :
            /\ blocks[i].type = "tool_result"
            /\ \A j \in 1..(i - 1) : blocks[j].type # "tool_result"
    ELSE 0

shouldDisplayToolResultInUser(entry, useMap) ==
    IF entry.message # "object" THEN TRUE
    ELSE IF entry.content # "array" THEN TRUE
    ELSE LET k == FirstToolResult(entry.blocks)
             toolName == IF k # 0 /\ entry.blocks[k].tool_use_id # NoStr
                         THEN MapGet(useMap, entry.blocks[k].tool_use_id)
                         ELSE EmptyName
         IN  IF toolName = EmptyName
             THEN IF toolFilterList # {} THEN FALSE ELSE TRUE
             ELSE applyToolFilters(toolName, toolFilterList, toolExcludeList)

\* A variant that matches every user record under the role "user".
shouldDisplayUserByTypeOnly(entry, useMap) ==
    IF filterRoles = {} THEN TRUE ELSE "user" \in filterRoles

shouldDisplayUserWithToolResult(entry, useMap) ==
    IF filterRoles = {} THEN TRUE
    ELSE LET hasToolFilter == "tool" \in filterRoles
             hasUserFilter == "user" \in filterRoles
         IN  IF hasToolResult(entry)
             THEN IF hasToolFilter THEN shouldDisplayToolResultInUser(entry, useMap)
                  ELSE FALSE
             ELSE hasUserFilter

shouldDisplayEntryWithToolInfo(msgType, entry, useMap) ==
    LET hasToolFilters == toolFilterList # {} \/ toolExcludeList # {}
    IN  IF hasToolFilters
        THEN CASE msgType = "user" -> shouldDisplayUserWithToolResult(entry, useMap)
               [] msgType = "assistant" -> shouldDisplayAssistantWithTools(entry, useMap)
               [] msgType = "tool" -> shouldDisplayToolResult(entry, useMap)
               [] OTHER -> FALSE
        ELSE IF msgType = "user" THEN shouldDisplayUserWithToolResult(entry, useMap)
        ELSE IF ~shouldDisplayEntry(msgType, entry) THEN FALSE
        ELSE IF msgType = "tool" THEN shouldDisplayToolResult(entry, useMap)
        ELSE IF msgType = "assistant" THEN shouldDisplayAssistantWithTools(entry, useMap)
        ELSE TRUE

(***************************************************************************)
(* main.go: the correlation table                                          *)
(***************************************************************************)
\* A variant that records a name only for an id whose input it already knows.
collectBlockNameAfterInput(m, maps) ==
    IF m.type = "tool_use" /\ m.id # NoStr
    THEN << IF m.name # NoName /\ m.id \in DOMAIN maps[2]
            THEN MapPut(maps[1], m.id, m.name) ELSE maps[1],
            IF m.input # NoInput THEN MapPut(maps[2], m.id, m.input) ELSE maps[2] >>
    ELSE maps

\* A variant that starts a new table at every tool_use block.
collectBlockFresh(m, maps) ==
    IF m.type = "tool_use" /\ m.id # NoStr
    THEN << IF m.name # NoName THEN MapPut(EmptyMap, m.id, m.name) ELSE maps[1],
            IF m.input # NoInput THEN MapPut(EmptyMap, m.id, m.input) ELSE maps[2] >>
    ELSE maps

\* The loop body of collectToolUseInfo for one content element; maps is
\* <<toolUseMap, toolInputMap>>.
collectBlock(m, maps) ==
    IF m.type = "tool_use" /\ m.id # NoStr
    THEN << IF m.name # NoName THEN MapPut(maps[1], m.id, m.name) ELSE maps[1],
            IF m.input # NoInput THEN MapPut(maps[2], m.id, m.input) ELSE maps[2] >>
    ELSE maps

RECURSIVE collectFrom(_, _, _)
collectFrom(blocks, i, maps) ==
    IF i > Len(blocks) THEN maps
    ELSE collectFrom(blocks, i + 1, collectBlock(blocks[i], maps))

collectToolUseInfo(entry, maps) ==
    IF entry.message = "object" /\ entry.content = "array"
    THEN collectFrom(entry.blocks, 1, maps)
    ELSE maps

\* The callers' guard: only assistant records are collected.
Correlate(entry, maps) ==
    IF entry.type = "assistant" THEN collectToolUseInfo(entry, maps) ELSE maps

(***************************************************************************)
(* display.go: rendering one record (text mode)                            *)
(***************************************************************************)
\* The label displayToolResult prints after TOOL: the table's name for the
\* first tool_result block's tool_use_id, nothing if the key does not exist.
ToolLabel(entry, useMap) ==
    LET k == FirstToolResult(entry.blocks)
    IN  IF k # 0 /\ entry.blocks[k].tool_use_id # NoStr
           /\ entry.blocks[k].tool_use_id \in DOMAIN useMap
        THEN useMap[entry.blocks[k].tool_use_id]
        ELSE EmptyName

\* formatTimestamp with the cursor it reads and writes made explicit: str is
\* the text for the header (clock is empty for "00:00:00", elapsed is empty
\* when no "+..." is appended), last is lastTimestamp afterwards.
formatTimestamp(timestamp, last) ==
    IF timestamp = NoTime
    THEN [str |-> [clock |-> <<>>, elapsed |-> <<>>], last |-> last]
    ELSE LET localTime == timestamp[1]
         IN  IF cfg.ShowTiming /\ last # ZeroTime
             THEN [str |-> [clock |-> <<localTime>>, elapsed |-> <<localTime - last>>],
                   last |-> localTime]
             ELSE [str |-> [clock |-> <<localTime>>, elapsed |-> <<>>], last |-> localTime]

\* The header of a rendered record and the form of its body.
Printed(entry, timeStr, role, tool) ==
    [uuid |-> entry.uuid, time |-> timeStr, role |-> role, tool |-> tool,
     body |-> IF cfg.Compact THEN "summary" ELSE "content"]

displayUserMessage(entry, timeStr, useMap, inputMap) ==
    IF entry.message # "object" THEN <<>>
    ELSE IF entry.content = "array"
            /\ \E i \in 1..Len(entry.blocks) : entry.blocks[i].type = "tool_result"
         THEN << Printed(entry, timeStr, "TOOL", ToolLabel(entry, useMap)) >>
         ELSE << Printed(entry, timeStr, "USER", EmptyName) >>

displayAssistantMessage(entry, timeStr) ==
    IF entry.message # "object" THEN <<>>
    ELSE << Printed(entry, timeStr, "ASSISTANT", EmptyName) >>

(***************************************************************************)
(* json_output.go: one record as one line of JSON                          *)
(***************************************************************************)
\* A variant that writes a backslash as it is.
EscapeCharKeepsBackslash(c) ==
    CASE c = "\"" -> <<"\\", "\"">>
      [] c = "LF" -> <<"\\", "n">>
      [] c = "<" -> <<"\\", "u", "0", "0", "3", "c">>
      [] OTHER -> <<c>>

\* The characters of a JSON string that json.Marshal writes as an escape:
\* the quote, the backslash, the line feed ("LF") and, for HTML safety, "<".
EscapeChar(c) ==
    CASE c = "\"" -> <<"\\", "\"">>
      [] c = "\\" -> <<"\\", "\\">>
      [] c = "LF" -> <<"\\", "n">>
      [] c = "<" -> <<"\\", "u", "0", "0", "3", "c">>
      [] OTHER -> <<c>>

RECURSIVE EscapeString(_)
EscapeString(chars) ==
    IF chars = <<>> THEN <<>> ELSE EscapeChar(Head(chars)) \o EscapeString(Tail(chars))

\* The reading of the text between the quotes by a JSON parser.
RECURSIVE UnescapeString(_)
UnescapeString(text) ==
    IF text = <<>> THEN <<>>
    ELSE IF text[1] # "\\" THEN <<text[1]>> \o UnescapeString(Tail(text))
    ELSE IF Len(text) = 1 THEN <<"invalid">>
    ELSE IF text[2] = "n" THEN <<"LF">> \o UnescapeString(SubSeq(text, 3, Len(text)))
    ELSE IF text[2] = "u"
         THEN IF Len(text) >= 6 /\ SubSeq(text, 3, 6) = <<"0", "0", "3", "c">>
              THEN <<"<">> \o UnescapeString(SubSeq(text, 7, Len(text)))
              ELSE <<"invalid">>
    ELSE IF text[2] \in {"\"", "\\"} THEN <<text[2]>> \o UnescapeString(SubSeq(text, 3, Len(text)))
    ELSE <<"invalid">>

\* json.Marshal of a decoded value: a string between quotes with its
\* characters escaped; an absent field writes nothing.
MarshalValue(v) ==
    IF v.kind = "absent" THEN <<>>
    ELSE <<"\"">> \o EscapeString(v.chars) \o <<"\"">>

\* The value a JSON parser reads from that text.
ParseValue(text) ==
    IF text = <<>> THEN NoExtra
    ELSE [kind |-> "string", chars |-> UnescapeString(SubSeq(text, 2, Len(text) - 1))]

\* json.Marshal(entry): the fields the pipeline looks at, and the text of the
\* field it does not look at.
Marshal(entry) == [fields |-> With(entry, NoExtra), extra |-> MarshalValue(entry.extra)]

\* The record a JSON parser reads from an output line.
Parse(line) == With(line.fields, ParseValue(line.extra))

\* displayEntryAsJSON: fmt.Println(string(jsonBytes)).
displayEntryAsJSON(entry, useMap) == << [uuid |-> entry.uuid, json |-> Marshal(entry)] >>

\* What displayEntryWithToolInfo appends to the output, last being
\* lastTimestamp when it is called.
displayEntryWithToolInfo(entry, useMap, inputMap, last) ==
    IF ~shouldDisplayEntryWithToolInfo(entry.type, entry, useMap) THEN <<>>
    ELSE IF cfg.OutputFormat = "json" THEN displayEntryAsJSON(entry, useMap)
    ELSE LET timeStr == formatTimestamp(entry.timestamp, last).str
         IN  CASE entry.type = "user" -> displayUserMessage(entry, timeStr, useMap, inputMap)
               [] entry.type = "assistant" -> displayAssistantMessage(entry, timeStr)
               [] OTHER -> <<>>

\* A variant that formats the timestamp before it asks the filter.
timestampAfterFormat(entry, useMap, last) ==
    IF cfg.OutputFormat = "json" THEN last
    ELSE formatTimestamp(entry.timestamp, last).last

\* A variant that formats the timestamp only of a record that prints.
timestampAfterPrinted(entry, useMap, last) ==
    IF ~shouldDisplayEntryWithToolInfo(entry.type, entry, useMap) THEN last
    ELSE IF cfg.OutputFormat = "json" THEN last
    ELSE IF entry.type \in {"user", "assistant"} /\ entry.message = "object"
         THEN formatTimestamp(entry.timestamp, last).last
    ELSE last

\* lastTimestamp after displayEntryWithToolInfo: formatTimestamp is called
\* for a record that passes the filter in text mode, and for no other.
timestampAfterDisplay(entry, useMap, last) ==
    IF ~shouldDisplayEntryWithToolInfo(entry.type, entry, useMap) THEN last
    ELSE IF cfg.OutputFormat = "json" THEN last
    ELSE formatTimestamp(entry.timestamp, last).last

\* A call of displayEntryWithToolInfo.
Display(entry, useMap, inputMap) ==
    /\ out' = out \o displayEntryWithToolInfo(entry, useMap, inputMap, lastTimestamp)
    /\ lastTimestamp' = timestampAfterDisplay(entry, useMap, lastTimestamp)

(***************************************************************************)
(* display.go: the content of a message, its summary, truncated text       *)
(***************************************************************************)
\* JSON values of a message: a string is [kind |-> "string", chars |-> ...],
\* an array [kind |-> "array", items |-> ...], a missing key is Absent, and a
\* value of another shape carries only its kind (number, null, bool, object).
Absent == NoExtra
Str(chars) == [kind |-> "string", chars |-> chars]
Arr(items) == [kind |-> "array", items |-> items]
Other(kind) == [kind |-> kind, chars |-> <<>>]
IsStr(v) == v.kind = "string"

\* A JSON object inside a content array, with the keys display.go reads.
Obj(type, text, name, input, content, is_error) ==
    [kind |-> "map", type |-> type, text |-> text, name |-> name, input |-> input,
     content |-> content, is_error |-> is_error]

\* The input object of a tool_use block.
Input(command, file_path) == [kind |-> "map", command |-> command, file_path |-> file_path]

TypeText == Str(<<"text">>)
TypeToolUse == Str(<<"tool_use">>)
TypeToolResult == Str(<<"tool_result">>)

\* map[string]interface{}{"type": "text", "text": content}
TextItem(content) == Obj(TypeText, Str(content), Absent, Absent, Absent, Absent)

\* A variant that keeps every element of an array.
extractContentKeepsAll(message) ==
    IF IsStr(message.content) THEN <<TextItem(message.content.chars)>>
    ELSE IF message.content.kind = "array" THEN message.content.items
    ELSE <<>>

extractContent(message) ==
    IF IsStr(message.content) THEN <<TextItem(message.content.chars)>>
    ELSE IF message.content.kind = "array"
         THEN SelectSeq(message.content.items, LAMBDA item : item.kind = "map")
    ELSE <<>>

\* strings.Split(text, "\n"): the pieces between line feeds, at least one.
RECURSIVE Split(_)
Split(text) ==
    IF \A i \in 1..Len(text) : text[i] # "LF" THEN <<text>>
    ELSE LET i == CHOOSE k \in 1..Len(text) : text[k] = "LF" /\ \A j \in 1..(k - 1) : text[j] # "LF"
         IN  <<SubSeq(text, 1, i - 1)>> \o Split(SubSeq(text, i + 1, Len(text)))

IsSpace(c) == c \in {" ", "LF", "TAB"}

\* strings.TrimSpace
RECURSIVE TrimSpace(_)
TrimSpace(text) ==
    IF text = <<>> THEN text
    ELSE IF IsSpace(text[1]) THEN TrimSpace(Tail(text))
    ELSE IF IsSpace(text[Len(text)]) THEN TrimSpace(SubSeq(text, 1, Len(text) - 1))
    ELSE text

\* strings.ReplaceAll(text, "\n", " ")
ReplaceNewlines(text) == [i \in 1..Len(text) |-> IF text[i] = "LF" THEN " " ELSE text[i]]

truncateRunes(text, maxRunes) ==
    IF text = <<>> THEN text
    ELSE IF Len(text) <= maxRunes THEN text
    ELSE SubSeq(text, 1, maxRunes) \o <<".", ".", ".">>

\* strings.Join(parts, " ")
RECURSIVE Join(_)
Join(parts) ==
    IF parts = <<>> THEN <<>>
    ELSE IF Len(parts) = 1 THEN parts[1]
    ELSE parts[1] \o <<" ">> \o Join(Tail(parts))

ToolTag(name) == <<"[", "T", "o", "o", "l", ":", " ">> \o name \o <<"]">>
ResultTag(text) == <<"[", "R", "e", "s", "u", "l", "t", ":", " ">> \o text \o <<"]">>
PlainResultTag == <<"[", "T", "o", "o", "l", " ", "R", "e", "s", "u", "l", "t", "]">>

\* The part getMessageSummary adds for one content item: <<part>>, or <<>>.
summaryPart(item) ==
    IF item.type = TypeText
    THEN IF IsStr(item.text)
         THEN <<truncateRunes(TrimSpace(Split(item.text.chars)[1]), 60)>>
         ELSE <<>>
    ELSE IF item.type = TypeToolUse
    THEN IF IsStr(item.name)
         THEN IF item.name.chars = Bash /\ item.input.kind = "map" /\ IsStr(item.input.command)
              THEN <<ToolTag(Bash) \o <<" ">> \o
                     truncateRunes(TrimSpace(ReplaceNewlines(item.input.command.chars)), 40)>>
              ELSE <<ToolTag(item.name.chars)>>
         ELSE <<>>
    ELSE IF item.type = TypeToolResult
    THEN IF IsStr(item.content)
         THEN LET lines == Split(item.content.chars)
              IN  IF Len(lines) > 0 /\ lines[1] # <<>>
                  THEN <<ResultTag(truncateRunes(TrimSpace(lines[1]), 40))>>
                  ELSE <<PlainResultTag>>
         ELSE <<PlainResultTag>>
    ELSE <<>>

RECURSIVE summaryParts(_)
summaryParts(content) ==
    IF content = <<>> THEN <<>>
    ELSE summaryPart(Head(content)) \o summaryParts(Tail(content))

getMessageSummary(message) == Join(summaryParts(extractContent(message)))

\* What is printed, line by line: a line of text, or one of the notices.
TextLine(chars) == [kind |-> "text", chars |-> chars, n |-> 0]
MoreLines(n) == [kind |-> "more lines", chars |-> <<>>, n |-> n]
ErrorMark == [kind |-> "[ERROR]", chars |-> <<>>, n |-> 0]
NoContentNotice == [kind |-> "(No content)", chars |-> <<>>, n |-> 0]
TodoLines == [kind |-> "todo items", chars |-> <<>>, n |-> 0]

TextLines(lines) == [i \in 1..Len(lines) |-> TextLine(lines[i])]

displayText(text) == TextLines(Split(text))

\* A variant that truncates whatever is longer than maxLines.
displayTextTruncatedAtLimit(text, maxLines) ==
    LET lines == Split(text)
        totalLines == Len(lines)
    IN  IF totalLines <= maxLines THEN TextLines(lines)
        ELSE TextLines(SubSeq(lines, 1, maxLines)) \o <<MoreLines(totalLines - maxLines)>>

displayTextTruncated(text, maxLines) ==
    LET lines == Split(text)
        totalLines == Len(lines)
    IN  IF totalLines <= maxLines + 2 THEN TextLines(lines)
        ELSE TextLines(SubSeq(lines, 1, maxLines)) \o <<MoreLines(totalLines - maxLines)>>

\* displayToolResultString: what it prints (nothing if it returns false).
displayToolResultString(content) ==
    IF content = <<>> THEN <<>>
    ELSE IF cfg.Verbose THEN displayText(content)
    ELSE displayTextTruncated(content, 10)

\* displayToolResultArray: the non-empty text elements, one after another.
RECURSIVE displayToolResultArray(_)
displayToolResultArray(content) ==
    IF content = <<>> THEN <<>>
    ELSE LET m == Head(content)
             shown == IF m.kind = "map" /\ m.type = TypeText /\ IsStr(m.text) /\ m.text.chars # <<>>
                      THEN IF cfg.Verbose THEN displayText(m.text.chars)
                           ELSE displayTextTruncated(m.text.chars, 10)
                      ELSE <<>>
         IN  shown \o displayToolResultArray(Tail(content))

\* displayTodoWriteResultWithData: the todo items when toolUseResult has
\* newTodos, else the content (none of the texts here holds the default
\* message "Todos have been modified successfully").
displayTodoWriteResultWithData(result, toolUseResult) ==
    IF toolUseResult = "newTodos" THEN <<TodoLines>>
    ELSE IF IsStr(result.content) /\ result.content.chars # <<>> THEN displayText(result.content.chars)
    ELSE <<>>

\* toolUseResult is "nil", "newTodos" (an object with newTodos) or "other".
displayToolResultFull(result, toolName, toolUseResult) ==
    LET mark == IF result.is_error = Other("true") THEN <<ErrorMark>> ELSE <<>>
        shown == IF IsStr(result.content) THEN displayToolResultString(result.content.chars)
                 ELSE IF result.content.kind = "array" THEN displayToolResultArray(result.content.items)
                 ELSE <<>>
    IN  IF toolName = TodoWrite /\ toolUseResult # "nil"
        THEN mark \o displayTodoWriteResultWithData(result, toolUseResult)
        ELSE mark \o (IF shown = <<>> THEN <<NoContentNotice>> ELSE shown)

(***************************************************************************)
(* The transcript: lines, bytes, decoding                                  *)
(***************************************************************************)
\* The records the writer may produce.  "AsstEdit" reuses the id of
\* "AsstBash" with another name; "Malformed" is a line that is not JSON.
Kinds == {"AsstBash", "AsstEdit", "UserResult", "UserPlain", "Malformed"}

CatalogueRecord(kind, uuid) ==
    CASE kind = "AsstBash" ->
            Entry(uuid, "assistant", "object", "array", <<ToolUse("t1", Bash, "ls")>>, NoStr)
      [] kind = "AsstEdit" ->
            Entry(uuid, "assistant", "object", "array", <<ToolUse("t1", Edit, NoInput)>>, NoStr)
      [] kind = "UserResult" ->
            Entry(uuid, "user", "object", "array", <<ToolResult("t1")>>, NoStr)
      [] kind = "UserPlain" ->
            Entry(uuid, "user", "object", "string", <<>>, NoStr)
      [] kind = "UserUnstamped" ->
            Entry(uuid, "user", "object", "string", <<>>, NoStr)
      [] kind = "UserBare" ->
            Entry(uuid, "user", NoStr, NoStr, <<>>, NoStr)
      [] kind = "Summary" ->
            Entry(uuid, "summary", NoStr, NoStr, <<>>, NoStr)

\* The record of line uuid: the writer stamps its lines with rising times,
\* except a line whose timestamp does not parse.
CatalogueEntry(kind, uuid) ==
    At(CatalogueRecord(kind, uuid), IF kind = "UserUnstamped" THEN NoTime ELSE Stamp(uuid))

\* A line reaches the file in pieces: the head of its JSON text, the rest of
\* it, and the newline.  A writer may be interrupted between any two.
NL == [ln |-> 0, part |-> "newline"]
Piece(i, part) == [ln |-> i, part |-> part]
LineBytes(i) == <<Piece(i, "head"), Piece(i, "tail"), NL>>

RECURSIVE StreamOf(_)
StreamOf(n) == IF n = 0 THEN <<>> ELSE StreamOf(n - 1) \o LineBytes(n)

\* Everything the writer will have written when it is done.
Stream == StreamOf(Len(script))

\* json.Unmarshal of one scanned line: only the whole text of a line that is
\* JSON decodes.
DecodeOK(tok) ==
    \E i \in 1..Len(script) :
        /\ tok = <<Piece(i, "head"), Piece(i, "tail")>>
        /\ script[i] \notin {"Malformed", "Oversized"}

Decode(tok) == CatalogueEntry(script[tok[1].ln], tok[1].ln)

(***************************************************************************)
(* bufio.Scanner with ScanLines over the open file                         *)
(***************************************************************************)
HasNL(s) == \E i \in 1..Len(s) : s[i] = NL

FirstNL(s) == CHOOSE i \in 1..Len(s) : s[i] = NL /\ \A j \in 1..(i - 1) : s[j] # NL

\* A variant that leaves the offset where the discovery pass ended.
SeekStays(pos) == pos

\* file.Seek(0, 0) before the display pass.
SeekStart(pos) == 0

\* The text of an "Oversized" line is longer than the scanner's buffer
\* (maxScanTokenSize, 10MB); its head alone and its tail alone are not.  The
\* buffer fills up before a line end is found when both are in one line.
TooLong(line) ==
    \E j, k \in 1..Len(line) :
        /\ line[j].part = "head"
        /\ line[k] = Piece(line[j].ln, "tail")
        /\ script[line[j].ln] = "Oversized"

\* One call of scanner.Scan(): a line that is already buffered is returned;
\* otherwise the scanner reads what the file holds beyond the read offset, and
\* when that brings no newline it meets end of file and returns what is left,
\* if anything, as the last line.  A line that does not fit the buffer ends
\* the scan with bufio.ErrTooLong.
Scan ==
    LET refill == ~HasNL(sbuf) /\ ~eof
        fresh == IF fpos < Len(file) THEN SubSeq(file, fpos + 1, Len(file)) ELSE <<>>
        data == IF refill THEN sbuf \o fresh ELSE sbuf
        pos == IF refill /\ fpos < Len(file) THEN Len(file) ELSE fpos
        line == IF HasNL(data) THEN SubSeq(data, 1, FirstNL(data) - 1) ELSE data
    IN  IF TooLong(line)
        THEN [ok |-> FALSE, err |-> TRUE, tok |-> <<>>, sbuf |-> data, eof |-> eof, fpos |-> pos]
        ELSE IF HasNL(data)
        THEN [ok |-> TRUE, err |-> FALSE, tok |-> line,
              sbuf |-> SubSeq(data, FirstNL(data) + 1, Len(data)),
              eof |-> eof, fpos |-> pos]
        ELSE IF data # <<>>
        THEN [ok |-> TRUE, err |-> FALSE, tok |-> data, sbuf |-> <<>>, eof |-> TRUE, fpos |-> pos]
        ELSE [ok |-> FALSE, err |-> FALSE, tok |-> <<>>, sbuf |-> <<>>, eof |-> TRUE, fpos |-> pos]

\* scanner.Err() after Scan returned false.
ScannerErr(r) == IF r.err THEN "bufio.Scanner: token too long" ELSE "nil"

ScannerAdvance(r) ==
    /\ sbuf' = r.sbuf
    /\ eof' = r.eof
    /\ fpos' = r.fpos

NewScanner ==
    /\ sbuf' = <<>>
    /\ eof' = FALSE

(***************************************************************************)
(* Initial states                                                          *)
(***************************************************************************)
Modes == {"streaming", "buffered", "follow"}

RoleOptions == {{}, {"tool"}}
IncludeOptions == {{}, {Bash}}

PipelineCfgs ==
    {[DefaultCfg EXCEPT !.Role = r, !.ToolFilter = i] :
        r \in RoleOptions, i \in IncludeOptions}

Scripts == UNION {[1..n -> Kinds] : n \in 0..MaxLines}

NoEntry == Entry(0, NoStr, NoStr, NoStr, <<>>, NoStr)

\* No call of the glob functions alone is under way.
NoCall == [fn |-> "none", pattern |-> <<>>, str |-> <<>>, result |-> "unset"]

StartPc(m) ==
    CASE m = "streaming" -> "streaming"
      [] m = "buffered" -> "first_pass"
      [] m = "follow" -> "discovery"

\* A followed file starts at any point of the writer's progress; the other
\* modes read an input that is complete, with or without its last newline.
Init ==
    /\ mode \in Modes
    /\ cfg \in PipelineCfgs
    /\ script \in Scripts
    /\ \E n \in 0..Len(Stream) :
          /\ mode # "follow" => n >= Len(Stream) - 1
          /\ file = SubSeq(Stream, 1, n)
    /\ pc = StartPc(mode)
    /\ fpos = 0
    /\ sbuf = <<>>
    /\ eof = FALSE
    /\ toolUseMap = EmptyMap
    /\ toolInputMap = EmptyMap
    /\ bufUseMap = EmptyMap
    /\ bufInputMap = EmptyMap
    /\ entries = <<>>
    /\ di = 1
    /\ currentPos = 0
    /\ statSize = 0
    /\ out = <<>>
    /\ lastTimestamp = ZeroTime
    /\ err = "running"
    /\ fEntry = NoEntry
    /\ fMap = EmptyMap
    /\ fResult = "unset"
    /\ before = <<EmptyMap, EmptyMap>>
    /\ glob = NoCall
    /\ call = NoRun

filterVars == <<fEntry, fMap, fResult, before, glob, call>>
inputVars == <<mode, cfg, script>>
followVars == <<currentPos, statSize>>
bufferedVars == <<bufUseMap, bufInputMap, entries, di>>
tableVars == <<toolUseMap, toolInputMap>>

(***************************************************************************)
(* processStreaming                                                        *)
(***************************************************************************)
\* A variant that displays without recording the line's tool_use blocks.
StreamLineNoCorrelation ==
    /\ pc = "streaming"
    /\ Scan.ok
    /\ ScannerAdvance(Scan)
    /\ IF DecodeOK(Scan.tok)
       THEN Display(Decode(Scan.tok), toolUseMap, toolInputMap)
       ELSE UNCHANGED <<out, lastTimestamp>>
    /\ UNCHANGED <<tableVars, pc, err, file, bufferedVars, followVars, inputVars, filterVars>>

\* A variant that gives up at a line that does not decode.
StreamLineStopsOnMalformed ==
    /\ pc = "streaming"
    /\ Scan.ok
    /\ ScannerAdvance(Scan)
    /\ IF DecodeOK(Scan.tok)
       THEN LET entry == Decode(Scan.tok)
                maps == Correlate(entry, <<toolUseMap, toolInputMap>>)
            IN  /\ toolUseMap' = maps[1]
                /\ toolInputMap' = maps[2]
                /\ Display(entry, maps[1], maps[2])
                /\ UNCHANGED <<pc, err>>
       ELSE /\ err' = "invalid JSON"
            /\ pc' = "done"
            /\ UNCHANGED <<toolUseMap, toolInputMap, out, lastTimestamp>>
    /\ UNCHANGED <<file, bufferedVars, followVars, inputVars, filterVars>>

\* A variant that records the tool_use blocks of accepted records only.
StreamLineCorrelatesAccepted ==
    /\ pc = "streaming"
    /\ Scan.ok
    /\ ScannerAdvance(Scan)
    /\ IF DecodeOK(Scan.tok)
       THEN LET entry == Decode(Scan.tok)
                maps == IF shouldDisplayEntryWithToolInfo(entry.type, entry, toolUseMap)
                        THEN Correlate(entry, <<toolUseMap, toolInputMap>>)
                        ELSE <<toolUseMap, toolInputMap>>
            IN  /\ toolUseMap' = maps[1]
                /\ toolInputMap' = maps[2]
                /\ Display(entry, maps[1], maps[2])
       ELSE UNCHANGED <<toolUseMap, toolInputMap, out, lastTimestamp>>
    /\ UNCHANGED <<pc, err, file, bufferedVars, followVars, inputVars, filterVars>>

\* One iteration of the loop at main.go:432.
StreamLine ==
    /\ pc = "streaming"
    /\ Scan.ok
    /\ ScannerAdvance(Scan)
    /\ IF DecodeOK(Scan.tok)
       THEN LET entry == Decode(Scan.tok)
                maps == Correlate(entry, <<toolUseMap, toolInputMap>>)
            IN  /\ toolUseMap' = maps[1]
                /\ toolInputMap' = maps[2]
                /\ Display(entry, maps[1], maps[2])
       ELSE UNCHANGED <<toolUseMap, toolInputMap, out, lastTimestamp>>
    /\ UNCHANGED <<pc, err, file, bufferedVars, followVars, inputVars, filterVars>>

StreamEnd ==
    /\ pc = "streaming"
    /\ ~Scan.ok
    /\ ScannerAdvance(Scan)
    /\ err' = ScannerErr(Scan)
    /\ pc' = "done"
    /\ UNCHANGED <<tableVars, out, lastTimestamp, file, bufferedVars, followVars, inputVars, filterVars>>

(***************************************************************************)
(* processBuffered                                                         *)
(***************************************************************************)
\* A variant that displays each record as soon as it is decoded.
BufferedLineRendersEarly ==
    /\ pc = "first_pass"
    /\ Scan.ok
    /\ ScannerAdvance(Scan)
    /\ IF DecodeOK(Scan.tok)
       THEN LET entry == Decode(Scan.tok)
                maps == Correlate(entry, <<bufUseMap, bufInputMap>>)
            IN  /\ bufUseMap' = maps[1]
                /\ bufInputMap' = maps[2]
                /\ entries' = entries
                /\ Display(entry, maps[1], maps[2])
       ELSE UNCHANGED <<bufUseMap, bufInputMap, entries, out, lastTimestamp>>
    /\ UNCHANGED <<pc, di, err, file, tableVars, followVars, inputVars, filterVars>>

\* One iteration of the first pass, main.go:464.
BufferedLine ==
    /\ pc = "first_pass"
    /\ Scan.ok
    /\ ScannerAdvance(Scan)
    /\ IF DecodeOK(Scan.tok)
       THEN LET entry == Decode(Scan.tok)
                maps == Correlate(entry, <<bufUseMap, bufInputMap>>)
            IN  /\ bufUseMap' = maps[1]
                /\ bufInputMap' = maps[2]
                /\ entries' = Append(entries, entry)
       ELSE UNCHANGED <<bufUseMap, bufInputMap, entries>>
    /\ UNCHANGED <<pc, di, out, lastTimestamp, err, file, tableVars, followVars, inputVars, filterVars>>

\* The first pass ends.  With scanner.Err() nil the second pass starts;
\* otherwise processBuffered returns the error, and so does processFollowMode
\* when it was the caller (main.go:361-363).
BufferedEndOfInput ==
    /\ pc = "first_pass"
    /\ ~Scan.ok
    /\ ScannerAdvance(Scan)
    /\ IF Scan.err
       THEN /\ err' = ScannerErr(Scan)
            /\ pc' = "done"
            /\ UNCHANGED di
       ELSE /\ pc' = "second_pass"
            /\ di' = 1
            /\ UNCHANGED err
    /\ UNCHANGED <<bufUseMap, bufInputMap, entries, out, lastTimestamp, file, tableVars,
                   followVars, inputVars, filterVars>>

\* A variant that goes through the entries from the last to the first.
BufferedDisplayNewestFirst ==
    /\ pc = "second_pass"
    /\ di <= Len(entries)
    /\ Display(entries[Len(entries) + 1 - di], bufUseMap, bufInputMap)
    /\ di' = di + 1
    /\ UNCHANGED <<pc, err, file, fpos, sbuf, eof, bufUseMap, bufInputMap, entries,
                   tableVars, followVars, inputVars, filterVars>>

\* One iteration of the second pass, main.go:485.
BufferedDisplay ==
    /\ pc = "second_pass"
    /\ di <= Len(entries)
    /\ Display(entries[di], bufUseMap, bufInputMap)
    /\ di' = di + 1
    /\ UNCHANGED <<pc, err, file, fpos, sbuf, eof, bufUseMap, bufInputMap, entries,
                   tableVars, followVars, inputVars, filterVars>>

\* processBuffered returns nil.  Called from processFollowMode, its locals
\* end with it and the caller takes the file's offset as currentPos
\* (main.go:366).
BufferedReturn ==
    /\ pc = "second_pass"
    /\ di > Len(entries)
    /\ IF mode = "follow"
       THEN /\ currentPos' = fpos
            /\ pc' = "poll"
            /\ bufUseMap' = EmptyMap
            /\ bufInputMap' = EmptyMap
            /\ entries' = <<>>
            /\ di' = 1
            /\ UNCHANGED err
       ELSE /\ err' = "nil"
            /\ pc' = "done"
            /\ UNCHANGED <<currentPos, bufferedVars>>
    /\ UNCHANGED <<statSize, out, lastTimestamp, file, fpos, sbuf, eof, tableVars, inputVars, filterVars>>

(***************************************************************************)
(* processFollowMode                                                       *)
(***************************************************************************)
\* One iteration of the discovery pass, main.go:342: collect, do not render.
DiscoveryLine ==
    /\ pc = "discovery"
    /\ Scan.ok
    /\ ScannerAdvance(Scan)
    /\ IF DecodeOK(Scan.tok)
       THEN LET maps == Correlate(Decode(Scan.tok), <<toolUseMap, toolInputMap>>)
            IN  /\ toolUseMap' = maps[1]
                /\ toolInputMap' = maps[2]
       ELSE UNCHANGED <<toolUseMap, toolInputMap>>
    /\ UNCHANGED <<pc, out, lastTimestamp, err, file, bufferedVars, followVars, inputVars, filterVars>>

\* The discovery pass ends (its scanner.Err() is not looked at); seek to the
\* beginning and call processBuffered, which makes its own scanner, table and
\* entry list.
DiscoveryEnd ==
    /\ pc = "discovery"
    /\ ~Scan.ok
    /\ fpos' = SeekStart(Scan.fpos)
    /\ NewScanner
    /\ pc' = "first_pass"
    /\ bufUseMap' = EmptyMap
    /\ bufInputMap' = EmptyMap
    /\ entries' = <<>>
    /\ UNCHANGED <<di, out, lastTimestamp, err, file, tableVars, followVars, inputVars, filterVars>>

\* A variant that returns when a poll finds nothing new.
PollStatStopsWhenIdle ==
    /\ pc = "poll"
    /\ statSize' = Len(file)
    /\ IF Len(file) > currentPos
       THEN /\ fpos' = currentPos
            /\ NewScanner
            /\ pc' = "tail"
            /\ UNCHANGED err
       ELSE /\ pc' = "done"
            /\ err' = "nil"
            /\ UNCHANGED <<fpos, sbuf, eof>>
    /\ UNCHANGED <<currentPos, out, lastTimestamp, file, tableVars, bufferedVars, inputVars, filterVars>>

\* A variant that moves the offset back when the file has shrunk.
PollStatFollowsTruncation ==
    /\ pc = "poll"
    /\ statSize' = Len(file)
    /\ IF Len(file) > currentPos
       THEN /\ fpos' = currentPos
            /\ NewScanner
            /\ pc' = "tail"
            /\ UNCHANGED currentPos
       ELSE /\ pc' = "sleep"
            /\ currentPos' = Len(file)
            /\ UNCHANGED <<fpos, sbuf, eof>>
    /\ UNCHANGED <<out, lastTimestamp, err, file, tableVars, bufferedVars, inputVars, filterVars>>

\* Top of the poll loop, main.go:374-390: stat, and if the file is larger than
\* currentPos seek there and scan with a new scanner; otherwise sleep.
PollStat ==
    /\ pc = "poll"
    /\ statSize' = Len(file)
    /\ IF Len(file) > currentPos
       THEN /\ fpos' = currentPos
            /\ NewScanner
            /\ pc' = "tail"
       ELSE /\ pc' = "sleep"
            /\ UNCHANGED <<fpos, sbuf, eof>>
    /\ UNCHANGED <<currentPos, out, lastTimestamp, err, file, tableVars, bufferedVars, inputVars, filterVars>>

\* One iteration of the loop at main.go:392.
TailLine ==
    /\ pc = "tail"
    /\ Scan.ok
    /\ ScannerAdvance(Scan)
    /\ IF DecodeOK(Scan.tok)
       THEN LET entry == Decode(Scan.tok)
                maps == Correlate(entry, <<toolUseMap, toolInputMap>>)
            IN  /\ toolUseMap' = maps[1]
                /\ toolInputMap' = maps[2]
                /\ Display(entry, maps[1], maps[2])
       ELSE UNCHANGED <<toolUseMap, toolInputMap, out, lastTimestamp>>
    /\ UNCHANGED <<pc, err, file, bufferedVars, followVars, inputVars, filterVars>>

\* The scan ends: with scanner.Err() nil, currentPos = stat.Size() and the
\* loop sleeps; otherwise processFollowMode returns the error.
TailEnd ==
    /\ pc = "tail"
    /\ ~Scan.ok
    /\ ScannerAdvance(Scan)
    /\ IF Scan.err
       THEN /\ err' = ScannerErr(Scan)
            /\ pc' = "done"
            /\ UNCHANGED currentPos
       ELSE /\ currentPos' = statSize
            /\ pc' = "sleep"
            /\ UNCHANGED err
    /\ UNCHANGED <<statSize, out, lastTimestamp, file, tableVars, bufferedVars, inputVars, filterVars>>

\* time.Sleep(100 * time.Millisecond) at the end of the loop body, then the
\* next iteration.
Sleep ==
    /\ pc = "sleep"
    /\ pc' = "poll"
    /\ UNCHANGED <<fpos, sbuf, eof, out, lastTimestamp, err, file, tableVars, bufferedVars, followVars,
                   inputVars, filterVars>>

\* The transcript's writer appends the next piece of its output while the
\* file is being followed.
WriterAppend ==
    /\ mode = "follow"
    /\ Len(file) < Len(Stream)
    /\ file' = Append(file, Stream[Len(file) + 1])
    /\ UNCHANGED <<pc, fpos, sbuf, eof, out, lastTimestamp, err, tableVars, bufferedVars, followVars,
                   inputVars, filterVars>>

Next ==
    \/ StreamLine
    \/ StreamEnd
    \/ BufferedLine
    \/ BufferedEndOfInput
    \/ BufferedDisplay
    \/ BufferedReturn
    \/ DiscoveryLine
    \/ DiscoveryEnd
    \/ PollStat
    \/ TailLine
    \/ TailEnd
    \/ Sleep
    \/ WriterAppend

Spec == Init /\ [][Next]_vars

(***************************************************************************)
(* Streaming and buffered mode over transcripts that also hold records     *)
(* that print nothing and timestamps that do not parse, in text and JSON   *)
(***************************************************************************)
BatchKinds ==
    {"AsstBash", "UserResult", "UserPlain", "UserUnstamped", "UserBare", "Summary", "Malformed"}

BatchScripts == UNION {[1..n -> BatchKinds] : n \in 0..MaxLines}

BatchCfgs ==
    {[DefaultCfg EXCEPT !.Role = r, !.OutputFormat = f, !.ShowTiming = t] :
        r \in {{}, {"user"}}, f \in {"text", "json"}, t \in BOOLEAN}

InitBatch ==
    /\ mode \in {"streaming", "buffered"}
    /\ cfg \in BatchCfgs
    /\ script \in BatchScripts
    /\ \E n \in 0..Len(Stream) :
          /\ n >= Len(Stream) - 1
          /\ file = SubSeq(Stream, 1, n)
    /\ pc = StartPc(mode)
    /\ fpos = 0
    /\ sbuf = <<>>
    /\ eof = FALSE
    /\ toolUseMap = EmptyMap
    /\ toolInputMap = EmptyMap
    /\ bufUseMap = EmptyMap
    /\ bufInputMap = EmptyMap
    /\ entries = <<>>
    /\ di = 1
    /\ currentPos = 0
    /\ statSize = 0
    /\ out = <<>>
    /\ lastTimestamp = ZeroTime
    /\ err = "running"
    /\ fEntry = NoEntry
    /\ fMap = EmptyMap
    /\ fResult = "unset"
    /\ before = <<EmptyMap, EmptyMap>>
    /\ glob = NoCall
    /\ call = NoRun

NextBatch ==
    \/ StreamLine
    \/ StreamEnd
    \/ BufferedLine
    \/ BufferedEndOfInput
    \/ BufferedDisplay
    \/ BufferedReturn

SpecBatch == InitBatch /\ [][NextBatch]_vars

(***************************************************************************)
(* The three functions with failing input/output: lines that do not fit    *)
(* the scan buffer, and stat and seek calls that return an error           *)
(***************************************************************************)
FaultKinds == {"AsstBash", "UserResult", "UserPlain", "Oversized"}

FaultScripts == UNION {[1..n -> FaultKinds] : n \in 0..MaxLines}

InitFaults ==
    /\ mode \in Modes
    /\ cfg = DefaultCfg
    /\ script \in FaultScripts
    /\ \E n \in 0..Len(Stream) :
          /\ mode # "follow" => n >= Len(Stream) - 1
          /\ file = SubSeq(Stream, 1, n)
    /\ pc = StartPc(mode)
    /\ fpos = 0
    /\ sbuf = <<>>
    /\ eof = FALSE
    /\ toolUseMap = EmptyMap
    /\ toolInputMap = EmptyMap
    /\ bufUseMap = EmptyMap
    /\ bufInputMap = EmptyMap
    /\ entries = <<>>
    /\ di = 1
    /\ currentPos = 0
    /\ statSize = 0
    /\ out = <<>>
    /\ lastTimestamp = ZeroTime
    /\ err = "running"
    /\ fEntry = NoEntry
    /\ fMap = EmptyMap
    /\ fResult = "unset"
    /\ before = <<EmptyMap, EmptyMap>>
    /\ glob = NoCall
    /\ call = NoRun

\* processFollowMode returns with this error.
ReturnError(text) ==
    /\ err' = text
    /\ pc' = "done"
    /\ UNCHANGED <<fpos, sbuf, eof, out, lastTimestamp, file, tableVars, bufferedVars, followVars,
                   inputVars, filterVars>>

\* file.Seek(0, 0) fails after the discovery pass, main.go:355-358.
SeekStartFails ==
    /\ pc = "discovery"
    /\ ~Scan.ok
    /\ ReturnError("seeking to beginning")

\* file.Seek(0, io.SeekCurrent) fails after processBuffered, main.go:366-369.
SeekCurrentFails ==
    /\ mode = "follow"
    /\ pc = "second_pass"
    /\ di > Len(entries)
    /\ ReturnError("getting current position")

\* file.Stat() fails in the poll loop, main.go:374-377.
StatFails ==
    /\ pc = "poll"
    /\ ReturnError("getting file stats")

\* file.Seek(currentPos, 0) fails in the poll loop, main.go:381-384.
SeekFails ==
    /\ pc = "poll"
    /\ Len(file) > currentPos
    /\ ReturnError("seeking to position")

NextFaults ==
    \/ Next
    \/ SeekStartFails
    \/ SeekCurrentFails
    \/ StatFails
    \/ SeekFails

SpecFaults == InitFaults /\ [][NextFaults]_vars

(***************************************************************************)
(* processFollowMode as a thread that keeps running: the same steps and    *)
(* failures, with the progress of the reading thread assumed               *)
(***************************************************************************)
PollKinds == {"UserPlain", "Oversized"}

InitPolling ==
    /\ InitFaults
    /\ mode = "follow"
    /\ \A i \in 1..Len(script) : script[i] \in PollKinds

\* The steps of processFollowMode itself: a single thread that runs on
\* whenever it can.
FollowStep ==
    \/ DiscoveryLine
    \/ DiscoveryEnd
    \/ BufferedLine
    \/ BufferedEndOfInput
    \/ BufferedDisplay
    \/ BufferedReturn
    \/ PollStat
    \/ TailLine
    \/ TailEnd
    \/ Sleep

NextPolling ==
    \/ FollowStep
    \/ WriterAppend
    \/ SeekStartFails
    \/ SeekCurrentFails
    \/ StatFails
    \/ SeekFails

SpecPolling == InitPolling /\ [][NextPolling]_vars /\ WF_vars(FollowStep)

(***************************************************************************)
(* Follow mode on a file that its writer also truncates                    *)
(***************************************************************************)
TruncKinds == {"UserPlain"}

InitTruncate ==
    /\ Init
    /\ mode = "follow"
    /\ cfg = DefaultCfg
    /\ \A i \in 1..Len(script) : script[i] \in TruncKinds

\* The writer cuts the file down to a shorter beginning (and goes on writing
\* from there).
WriterTruncate ==
    /\ mode = "follow"
    /\ \E n \in 0..(Len(file) - 1) : file' = SubSeq(file, 1, n)
    /\ UNCHANGED <<pc, fpos, sbuf, eof, out, lastTimestamp, err, tableVars, bufferedVars, followVars,
                   inputVars, filterVars>>

NextTruncate ==
    \/ FollowStep
    \/ WriterAppend
    \/ WriterTruncate

SpecTruncate == InitTruncate /\ [][NextTruncate]_vars

(***************************************************************************)
(* Rendering alone: the second pass of processBuffered over decoded        *)
(* records, with timestamps and unknown fields, in text and in JSON mode   *)
(***************************************************************************)
\* Longest list of decoded records handed to the second pass.
MaxShown == 3

PlainRecord(t) == Entry(0, t, "object", "string", <<>>, NoStr)

\* Records that differ in type and timestamp.
TimedShapes ==
    {At(PlainRecord(t), ts) :
        t \in {"user", "assistant"},
        ts \in {NoTime, Stamp(ZeroTime), Stamp(1), Stamp(3)}}

\* Values of a field the pipeline does not look at: strings with a
\* backslash, a line feed, a "<" and a quote in them.
Extras ==
    {NoExtra} \cup
    {[kind |-> "string", chars |-> c] :
        c \in {<<"\\", "n">>, <<"LF", "<">>, <<"\"", "a">>}}

\* Records that differ in type and in that field.
ExtraShapes ==
    {With(At(PlainRecord(t), Stamp(1)), x) : t \in {"user", "assistant"}, x \in Extras}

Numbered(shapes) == [i \in DOMAIN shapes |-> [shapes[i] EXCEPT !.uuid = i]]

RecordLists(S) == UNION {{Numbered(f) : f \in [1..n -> S]} : n \in 0..MaxShown}

TextCfgs ==
    {[DefaultCfg EXCEPT !.Role = r, !.ShowTiming = t] :
        r \in {{}, {"user"}}, t \in BOOLEAN}

JSONCfgs ==
    {[DefaultCfg EXCEPT !.Role = r, !.OutputFormat = "json", !.Compact = c, !.ShowTiming = t] :
        r \in {{}, {"user"}}, c \in BOOLEAN, t \in BOOLEAN}

InitDisplay ==
    /\ \/ cfg \in TextCfgs /\ entries \in RecordLists(TimedShapes)
       \/ cfg \in JSONCfgs /\ entries \in RecordLists(ExtraShapes)
    /\ mode = "buffered"
    /\ pc = "second_pass"
    /\ di = 1
    /\ bufUseMap = EmptyMap
    /\ bufInputMap = EmptyMap
    /\ out = <<>>
    /\ lastTimestamp = ZeroTime
    /\ err = "running"
    /\ script = <<>>
    /\ file = <<>>
    /\ fpos = 0
    /\ sbuf = <<>>
    /\ eof = TRUE
    /\ toolUseMap = EmptyMap
    /\ toolInputMap = EmptyMap
    /\ currentPos = 0
    /\ statSize = 0
    /\ fEntry = NoEntry
    /\ fMap = EmptyMap
    /\ fResult = "unset"
    /\ before = <<EmptyMap, EmptyMap>>
    /\ glob = NoCall
    /\ call = NoRun

NextDisplay ==
    \/ BufferedDisplay
    \/ BufferedReturn

SpecDisplay == InitDisplay /\ [][NextDisplay]_vars

(***************************************************************************)
(* The filter alone: shouldDisplayEntryWithToolInfo over records, tables    *)
(* and configurations drawn from bounded sets                              *)
(***************************************************************************)
FilterBlocks ==
    {TextBlock, NonObject,
     ToolUse("t1", Bash, "ls"), ToolUse("t2", Edit, NoInput),
     ToolUse(NoStr, Bash, "ls"), ToolUse("t1", NoName, NoInput),
     ToolResult("t1"), ToolResult("t2"), ToolResult(NoStr)}

FilterContents == UNION {[1..n -> FilterBlocks] : n \in 0..MaxBlocks}

FilterTypes == {"user", "assistant", "tool", "system", ""}

FilterEntries ==
    {Entry(0, t, "object", "array", b, p) :
        t \in FilterTypes, b \in FilterContents, p \in {NoStr}}
    \cup {Entry(0, t, m[1], m[2], <<>>, p) :
            t \in FilterTypes,
            m \in {<<NoStr, NoStr>>, <<"object", NoStr>>, <<"object", "string">>},
            p \in {NoStr}}
    \cup {Entry(0, "tool", "object", "string", <<>>, p) : p \in {"t1", "t2"}}

FilterMaps ==
    {EmptyMap, MapPut(EmptyMap, "t1", Bash), MapPut(EmptyMap, "t1", Edit),
     MapPut(MapPut(EmptyMap, "t1", Bash), "t2", Edit)}

FilterCfgs ==
    {[DefaultCfg EXCEPT !.Role = r, !.ToolFilter = i, !.ToolExclude = x] :
        r \in {{}, {"user"}, {"tool"}, {"assistant"}, {"user", "tool"}, {"system"}},
        i \in {{}, {Bash}, {PatStarEdit}},
        x \in {{}, {Bash}, {PatStar}}}

InitFilter ==
    /\ fEntry \in FilterEntries
    /\ fMap \in FilterMaps
    /\ cfg \in FilterCfgs
    /\ fResult = "unset"
    /\ mode = "filter"
    /\ script = <<>>
    /\ file = <<>>
    /\ pc = "done"
    /\ fpos = 0
    /\ sbuf = <<>>
    /\ eof = FALSE
    /\ toolUseMap = EmptyMap
    /\ toolInputMap = EmptyMap
    /\ bufUseMap = EmptyMap
    /\ bufInputMap = EmptyMap
    /\ entries = <<>>
    /\ di = 1
    /\ currentPos = 0
    /\ statSize = 0
    /\ out = <<>>
    /\ lastTimestamp = ZeroTime
    /\ err = "running"
    /\ before = <<EmptyMap, EmptyMap>>
    /\ glob = NoCall
    /\ call = NoRun

\* The check at display.go:173.
FilterApply ==
    /\ fResult = "unset"
    /\ fResult' = IF shouldDisplayEntryWithToolInfo(fEntry.type, fEntry, fMap)
                  THEN "accept" ELSE "reject"
    /\ UNCHANGED <<fEntry, fMap, before, glob, call, mode, cfg, script, file, pc, fpos, sbuf, eof,
                   out, lastTimestamp, err, tableVars, bufferedVars, followVars>>

NextFilter == FilterApply

SpecFilter == InitFilter /\ [][NextFilter]_vars

(***************************************************************************)
(* The correlation table alone: collectToolUseInfo, behind its callers'    *)
(* guard, over records and tables drawn from bounded sets                  *)
(***************************************************************************)
CollectBlocks ==
    {TextBlock, NonObject, ToolResult("t1"),
     ToolUse("t1", Bash, "ls"), ToolUse("t1", Edit, NoInput), ToolUse("t1", NoName, "ls"),
     ToolUse("t2", Edit, "path"), ToolUse(NoStr, Bash, "ls")}

CollectContents == UNION {[1..n -> CollectBlocks] : n \in 0..MaxBlocks}

CollectEntries ==
    {Entry(0, t, "object", "array", b, NoStr) :
        t \in {"assistant", "user"}, b \in CollectContents}
    \cup {Entry(0, "assistant", m[1], m[2], <<>>, NoStr) :
            m \in {<<NoStr, NoStr>>, <<"object", NoStr>>, <<"object", "string">>}}

CollectTables ==
    {<<n, i>> : n \in {EmptyMap, MapPut(EmptyMap, "t1", Bash), MapPut(EmptyMap, "t1", Edit)},
                i \in {EmptyMap, MapPut(EmptyMap, "t1", "ls")}}

InitCollect ==
    /\ \E t \in CollectTables :
          /\ toolUseMap = t[1]
          /\ toolInputMap = t[2]
          /\ before = t
    /\ fEntry = NoEntry
    /\ glob = NoCall
    /\ call = NoRun
    /\ pc = "observing"
    /\ mode = "collect"
    /\ cfg = DefaultCfg
    /\ fMap = EmptyMap
    /\ fResult = "unset"
    /\ script = <<>>
    /\ file = <<>>
    /\ fpos = 0
    /\ sbuf = <<>>
    /\ eof = FALSE
    /\ bufUseMap = EmptyMap
    /\ bufInputMap = EmptyMap
    /\ entries = <<>>
    /\ di = 1
    /\ currentPos = 0
    /\ statSize = 0
    /\ out = <<>>
    /\ lastTimestamp = ZeroTime
    /\ err = "running"

collectFrame == <<fMap, fResult, glob, call, mode, cfg, script, file, fpos, sbuf, eof, out, lastTimestamp, err,
                  bufferedVars, followVars>>

\* A record is decoded and observed: main.go:441-443.
Observe ==
    /\ pc \in {"observing", "observed", "observed_again"}
    /\ \E entry \in CollectEntries :
          LET maps == Correlate(entry, <<toolUseMap, toolInputMap>>)
          IN  /\ fEntry' = entry
              /\ before' = <<toolUseMap, toolInputMap>>
              /\ toolUseMap' = maps[1]
              /\ toolInputMap' = maps[2]
    /\ pc' = "observed"
    /\ UNCHANGED collectFrame

\* The record observed last is observed again, as when follow mode reads a
\* line in its discovery pass and once more afterwards.
ObserveAgain ==
    /\ pc = "observed"
    /\ LET maps == Correlate(fEntry, <<toolUseMap, toolInputMap>>)
       IN  /\ before' = <<toolUseMap, toolInputMap>>
           /\ toolUseMap' = maps[1]
           /\ toolInputMap' = maps[2]
    /\ pc' = "observed_again"
    /\ UNCHANGED <<fEntry, collectFrame>>

NextCollect ==
    \/ Observe
    \/ ObserveAgain

SpecCollect == InitCollect /\ [][NextCollect]_vars

(***************************************************************************)
(* The glob functions alone: matchGlobPattern over patterns and strings,   *)
(* applyToolFilters over names and pattern lists, drawn from bounded sets  *)
(***************************************************************************)
\* Longest pattern and longest string, in characters, given to matchGlobPattern.
MaxGlob == 3

\* A text is a sequence of characters.  Go indexes a string by its bytes:
\* an ASCII character is one byte, "eacute" (U+00E9) is two in UTF-8.
UTF8(c) == IF c = "eacute" THEN <<"xC3", "xA9">> ELSE <<c>>

RECURSIVE BytesOf(_)
BytesOf(text) == IF text = <<>> THEN <<>> ELSE UTF8(Head(text)) \o BytesOf(Tail(text))

PatternChars == {"*", "?", "a", "eacute"}
StrChars == {"a", "b", "eacute"}

GlobPatterns == UNION {[1..n -> PatternChars] : n \in 0..MaxGlob}
GlobStrings == UNION {[1..n -> StrChars] : n \in 0..MaxGlob}

MultiEdit == <<"M", "u", "l", "t", "i", "E", "d", "i", "t">>
Editor == <<"E", "d", "i", "t", "o", "r">>
ToolNames == {Bash, Edit, MultiEdit, Editor, EmptyName}
ToolPatterns == {Bash, PatStarEdit, PatStar}

GlobCfgs ==
    {[DefaultCfg EXCEPT !.ToolFilter = i, !.ToolExclude = x] :
        i \in SUBSET ToolPatterns, x \in SUBSET ToolPatterns}

InitGlob ==
    /\ \/ /\ glob \in {[fn |-> "matchGlobPattern", pattern |-> p, str |-> t, result |-> "unset"] :
                            p \in GlobPatterns, t \in GlobStrings}
          /\ cfg = DefaultCfg
       \/ /\ glob \in {[fn |-> "applyToolFilters", pattern |-> <<>>, str |-> t, result |-> "unset"] :
                            t \in ToolNames}
          /\ cfg \in GlobCfgs
    /\ mode = "glob"
    /\ call = NoRun
    /\ pc = "done"
    /\ fEntry = NoEntry
    /\ fMap = EmptyMap
    /\ fResult = "unset"
    /\ before = <<EmptyMap, EmptyMap>>
    /\ script = <<>>
    /\ file = <<>>
    /\ fpos = 0
    /\ sbuf = <<>>
    /\ eof = FALSE
    /\ toolUseMap = EmptyMap
    /\ toolInputMap = EmptyMap
    /\ bufUseMap = EmptyMap
    /\ bufInputMap = EmptyMap
    /\ entries = <<>>
    /\ di = 1
    /\ currentPos = 0
    /\ statSize = 0
    /\ out = <<>>
    /\ lastTimestamp = ZeroTime
    /\ err = "running"

globFrame == <<fEntry, fMap, fResult, before, call, mode, cfg, script, file, pc, fpos, sbuf, eof,
               out, lastTimestamp, err, tableVars, bufferedVars, followVars>>

Answer(b) == IF b THEN "true" ELSE "false"

\* matchGlobPattern(pattern, str) on the bytes of both strings.
MatchApply ==
    /\ glob.fn = "matchGlobPattern"
    /\ glob.result = "unset"
    /\ glob' = [glob EXCEPT !.result =
                    Answer(matchGlobPattern(BytesOf(glob.pattern), BytesOf(glob.str)))]
    /\ UNCHANGED globFrame

\* applyToolFilters(toolName, toolFilterList, toolExcludeList).
FiltersApply ==
    /\ glob.fn = "applyToolFilters"
    /\ glob.result = "unset"
    /\ glob' = [glob EXCEPT !.result =
                    Answer(applyToolFilters(glob.str, toolFilterList, toolExcludeList))]
    /\ UNCHANGED globFrame

NextGlob ==
    \/ MatchApply
    \/ FiltersApply

SpecGlob == InitGlob /\ [][NextGlob]_vars

(***************************************************************************)
(* The display.go functions alone: extractContent, getMessageSummary and   *)
(* displayToolResultFull over messages and tool results                    *)
(***************************************************************************)
\* Longest content array.
MaxItems == 2
\* Most lines of a tool result's text.
MaxTextLines == 13

Hello == <<"h", "e", "l", "l", "o">>
Path == <<"/", "p", "/", "f", ".", "g", "o">>
Ls == <<"l", "s">>

Repeat(c, n) == [i \in 1..n |-> c]

\* n lines "1" .. "n" with line feeds between them.
RECURSIVE NumberedLines(_)
NumberedLines(n) ==
    IF n = 0 THEN <<>>
    ELSE IF n = 1 THEN <<"1">>
    ELSE NumberedLines(n - 1) \o <<"LF", ToString(n)>>

\* Texts of up to MaxTextLines lines, with and without a final line feed.
Texts == {NumberedLines(n) \o last : n \in 0..MaxTextLines, last \in {<<>>, <<"LF">>}}

ToolUseItem(name, input) == Obj(TypeToolUse, Absent, name, input, Absent, Absent)
ToolResultItem(content, is_error) == Obj(TypeToolResult, Absent, Absent, Absent, content, is_error)

Arrays(S) == UNION {{Arr(items) : items \in [1..n -> S]} : n \in 0..MaxItems}

\* Elements of a content array: objects, and values that are no objects.
ExtractItems ==
    {TextItem(<<"a">>), ToolUseItem(Str(Bash), Absent),
     Other("number"), Str(<<"a">>), Other("null")}

ExtractContents ==
    {Absent, Other("null"), Other("number"), Other("object"), Str(<<>>), Str(Hello)}
    \cup Arrays(ExtractItems)

SummaryItems ==
    {TextItem(<<"a", "LF", "b">>), TextItem(<<" ", "a", " ">>), TextItem(Repeat("a", 61)),
     Obj(TypeText, Other("number"), Absent, Absent, Absent, Absent)}
    \cup {ToolUseItem(name, input) :
            name \in {Str(Bash), Str(Read), Str(Write), Absent},
            input \in {Absent, Input(Str(Ls), Absent), Input(Absent, Str(Path)),
                       Input(Str(<<"l", "s", "LF", "a">>), Str(Path))}}
    \cup {ToolResultItem(c, Absent) :
            c \in {Absent, Str(<<>>), Str(<<"o", "k", "LF", "x">>), Str(Repeat("a", 41))}}

SummaryContents == {Str(<<"a">>)} \cup Arrays(SummaryItems)

ResultItems ==
    {TextItem(<<>>), TextItem(NumberedLines(2)), TextItem(NumberedLines(MaxTextLines)),
     Other("number"), ToolUseItem(Str(Bash), Absent)}

ResultContents ==
    {Absent, Other("number")} \cup {Str(t) : t \in Texts} \cup Arrays(ResultItems)

Message(content) == [content |-> content]

Run(fn, arg, toolName, toolUseResult) ==
    [fn |-> fn, arg |-> arg, toolName |-> toolName, toolUseResult |-> toolUseResult,
     done |-> FALSE, result |-> <<>>]

InitText ==
    /\ \/ /\ call \in {Run("extractContent", Message(c), <<>>, "nil") : c \in ExtractContents}
          /\ cfg = DefaultCfg
       \/ /\ call \in {Run("getMessageSummary", Message(c), <<>>, "nil") : c \in SummaryContents}
          /\ cfg = [DefaultCfg EXCEPT !.Compact = TRUE]
       \/ /\ call \in {Run("displayToolResultFull", ToolResultItem(c, e), name, r) :
                          c \in ResultContents,
                          e \in {Absent, Other("true"), Other("false")},
                          name \in {Bash, TodoWrite},
                          r \in {"nil", "newTodos", "other"}}
          /\ cfg \in {[DefaultCfg EXCEPT !.Verbose = v] : v \in BOOLEAN}
    /\ mode = "display"
    /\ pc = "calling"
    /\ glob = NoCall
    /\ script = <<>>
    /\ file = <<>>
    /\ fpos = 0
    /\ sbuf = <<>>
    /\ eof = FALSE
    /\ toolUseMap = EmptyMap
    /\ toolInputMap = EmptyMap
    /\ bufUseMap = EmptyMap
    /\ bufInputMap = EmptyMap
    /\ entries = <<>>
    /\ di = 1
    /\ currentPos = 0
    /\ statSize = 0
    /\ out = <<>>
    /\ lastTimestamp = ZeroTime
    /\ err = "running"
    /\ fEntry = NoEntry
    /\ fMap = EmptyMap
    /\ fResult = "unset"
    /\ before = <<EmptyMap, EmptyMap>>

textFrame == <<fEntry, fMap, fResult, before, glob, mode, cfg, script, file, pc, fpos, sbuf, eof,
               out, lastTimestamp, err, tableVars, bufferedVars, followVars>>

ExtractApply ==
    /\ call.fn = "extractContent"
    /\ ~call.done
    /\ call' = [call EXCEPT !.done = TRUE, !.result = extractContent(call.arg)]
    /\ UNCHANGED textFrame

SummaryApply ==
    /\ call.fn = "getMessageSummary"
    /\ ~call.done
    /\ call' = [call EXCEPT !.done = TRUE, !.result = getMessageSummary(call.arg)]
    /\ UNCHANGED textFrame

ResultApply ==
    /\ call.fn = "displayToolResultFull"
    /\ ~call.done
    /\ call' = [call EXCEPT !.done = TRUE,
                            !.result = displayToolResultFull(call.arg, call.toolName,
                                                             call.toolUseResult)]
    /\ UNCHANGED textFrame

NextText ==
    \/ ExtractApply
    \/ SummaryApply
    \/ ResultApply

SpecText == InitText /\ [][NextText]_vars

(***************************************************************************)
(* Properties of rendering (checked under SpecDisplay)                     *)
(***************************************************************************)
\* The records handed to displayEntryWithToolInfo so far.
Shown == 1..(di - 1)

Accepted(i) == shouldDisplayEntryWithToolInfo(entries[i].type, entries[i], bufUseMap)

\* The last filter-accepted record before record i (0 if there is none).
PrevAccepted(i) ==
    IF \E j \in 1..(i - 1) : Accepted(j)
    THEN CHOOSE j \in 1..(i - 1) : Accepted(j) /\ \A k \in (j + 1)..(i - 1) : ~Accepted(k)
    ELSE 0

Stamped(i) == Accepted(i) /\ entries[i].timestamp # NoTime

\* The last filter-accepted record with a parsable timestamp before record i.
PrevStamped(i) ==
    IF \E j \in 1..(i - 1) : Stamped(j)
    THEN CHOOSE j \in 1..(i - 1) : Stamped(j) /\ \A k \in (j + 1)..(i - 1) : ~Stamped(k)
    ELSE 0

Instant(i) == entries[i].timestamp[1]

\* What was printed for record i.
ItemsOf(i) == {k \in 1..Len(out) : out[k].uuid = i}

Item(i) == out[CHOOSE k \in ItemsOf(i) : TRUE]

TextMode == cfg.OutputFormat = "text"

\* The cursor is moved by filter-accepted records only.
CursorFollowsAccepted ==
    lastTimestamp = IF PrevStamped(di) = 0 THEN ZeroTime ELSE Instant(PrevStamped(di))

\* C14 as stated: the cursor is moved by filter-accepted records only, and
\* with timing enabled the elapsed annotation of an accepted record with a
\* parsable timestamp is the gap to the timestamp of the accepted record
\* before it.
C14_ElapsedSincePreviousAccepted ==
    TextMode =>
        /\ CursorFollowsAccepted
        /\ cfg.ShowTiming =>
              \A i \in Shown :
                  (Stamped(i) /\ PrevAccepted(i) # 0) =>
                      /\ entries[PrevAccepted(i)].timestamp # NoTime
                      /\ ItemsOf(i) # {}
                      /\ Item(i).time.elapsed = <<Instant(i) - Instant(PrevAccepted(i))>>

\* C14 as amended: the cursor is moved by filter-accepted records only, and
\* only by those with a parsable timestamp; with timing enabled the elapsed
\* annotation of an accepted record with a parsable timestamp is the gap to
\* the last accepted record before it that has a parsable timestamp, and
\* there is no annotation when there is no such record or its timestamp is
\* the zero time; without timing, and in JSON mode, there is none at all.
C14_ElapsedSincePreviousStamped ==
    /\ CursorFollowsAccepted \/ ~TextMode
    /\ ~TextMode => lastTimestamp = ZeroTime
    /\ TextMode =>
          \A i \in Shown :
              Stamped(i) =>
                  /\ ItemsOf(i) # {}
                  /\ Item(i).time.elapsed =
                        IF cfg.ShowTiming /\ PrevStamped(i) # 0
                           /\ Instant(PrevStamped(i)) # ZeroTime
                        THEN <<Instant(i) - Instant(PrevStamped(i))>>
                        ELSE <<>>

\* A rejected record with a later timestamp lies between two accepted ones.
C14_Witness ==
    /\ pc = "done"
    /\ TextMode /\ cfg.ShowTiming /\ cfg.Role = {"user"}
    /\ Len(entries) = 3
    /\ entries[1].type = "user" /\ entries[1].timestamp = Stamp(1)
    /\ entries[2].type = "assistant" /\ entries[2].timestamp = Stamp(3)
    /\ entries[3].type = "user" /\ entries[3].timestamp = Stamp(3)
    /\ Len(out) = 2
    /\ out[2].time.elapsed = <<2>>
    /\ lastTimestamp = 3

Extracted == call.fn = "extractContent" /\ call.done

\* The elements of an array that are objects, in the array's order.
RECURSIVE ObjectsOf(_)
ObjectsOf(items) ==
    IF items = <<>> THEN <<>>
    ELSE IF Head(items).kind = "map" THEN <<Head(items)>> \o ObjectsOf(Tail(items))
    ELSE ObjectsOf(Tail(items))

\* C21: extractContent always returns a sequence: for string content exactly
\* one text block holding the string, for array content exactly the elements
\* that are objects, in their order, and for absent content or content of
\* another shape the empty sequence.
C21_ExtractContentTotal ==
    Extracted =>
        LET content == call.arg.content
        IN  /\ content.kind = "string" =>
                  /\ Len(call.result) = 1
                  /\ call.result[1].type = TypeText
                  /\ call.result[1].text = Str(content.chars)
            /\ content.kind = "array" => call.result = ObjectsOf(content.items)
            /\ content.kind \notin {"string", "array"} => call.result = <<>>

\* An array with a number between two objects gives the two objects.
C21_Witness ==
    /\ Extracted
    /\ call.arg.content = Arr(<<TextItem(<<"a">>), Other("number")>>)
    /\ call.result = <<TextItem(<<"a">>)>>

ResultShown == call.fn = "displayToolResultFull" /\ call.done

\* The lines of a text: one more than its line feeds.
LineCount(text) == Cardinality({i \in 1..Len(text) : text[i] = "LF"}) + 1

\* Line k of a text: what lies between line feed k - 1 and line feed k.
LineOf(text, k) ==
    LET feeds == {i \in 1..Len(text) : text[i] = "LF"}
        from == IF k = 1 THEN 0
                ELSE CHOOSE i \in feeds : Cardinality({j \in feeds : j < i}) = k - 2
        to == IF k = LineCount(text) THEN Len(text) + 1
              ELSE CHOOSE i \in feeds : Cardinality({j \in feeds : j < i}) = k - 1
    IN  SubSeq(text, from + 1, to - 1)

FirstLines(text, n) == [k \in 1..n |-> TextLine(LineOf(text, k))]

\* What is printed after the [ERROR] marker, if there is one.
Body == IF call.result # <<>> /\ call.result[1] = ErrorMark THEN Tail(call.result) ELSE call.result

\* The first limit lines and a notice when the text has more than most lines,
\* else the whole text.
Truncated(text, limit, most) ==
    IF LineCount(text) > most
    THEN FirstLines(text, limit) \o <<MoreLines(LineCount(text) - limit)>>
    ELSE FirstLines(text, LineCount(text))

OrdinaryTool == call.toolName # TodoWrite \/ call.toolUseResult = "nil"

\* C22 as stated (read for a tool without structured todo data and without
\* the verbose flag): a tool result's content of more than 10 lines is printed
\* as its first 10 lines and the notice "(N more lines)" with N = lines - 10,
\* content of at most 10 lines is printed whole, and empty or absent content
\* is printed as "(No content)".
C22_TruncatedAfterTenLines ==
    (ResultShown /\ OrdinaryTool /\ ~cfg.Verbose) =>
        LET content == call.arg.content
        IN  /\ (content.kind = "string" /\ content.chars # <<>>
                 /\ content.chars[Len(content.chars)] # "LF") =>
                  Body = Truncated(content.chars, 10, 10)
            /\ (content.kind = "absent" \/ content = Str(<<>>)) => Body = <<NoContentNotice>>

\* What the text elements of an array give, one after another.
RECURSIVE ElementsShown(_)
ElementsShown(items) ==
    IF items = <<>> THEN <<>>
    ELSE LET m == Head(items)
         IN  (IF m.kind = "map" /\ m.type = TypeText /\ m.text.kind = "string" /\ m.text.chars # <<>>
              THEN IF cfg.Verbose THEN FirstLines(m.text.chars, LineCount(m.text.chars))
                   ELSE Truncated(m.text.chars, 10, 12)
              ELSE <<>>)
             \o ElementsShown(Tail(items))

\* C22 as amended: for a tool other than TodoWrite with structured data, and
\* without the verbose flag, a text of more than 12 lines is printed as its
\* first 10 lines and the notice "(N more lines)" with N = lines - 10, and a
\* text of at most 12 lines is printed whole; with the verbose flag every text
\* is printed whole; the text elements of array content are each printed this
\* way; content that is empty, absent, of another shape, or an array without a
\* non-empty text element is printed as "(No content)".
C22_TruncatedAfterTwelveLines ==
    (ResultShown /\ OrdinaryTool) =>
        LET content == call.arg.content
            expected == IF content.kind = "string" /\ content.chars # <<>>
                        THEN IF cfg.Verbose
                             THEN FirstLines(content.chars, LineCount(content.chars))
                             ELSE Truncated(content.chars, 10, 12)
                        ELSE IF content.kind = "array" THEN ElementsShown(content.items)
                        ELSE <<>>
        IN  Body = IF expected = <<>> THEN <<NoContentNotice>> ELSE expected

\* A text of 13 lines is printed as 10 lines and the notice "(3 more lines)".
C22_Witness ==
    /\ ResultShown
    /\ OrdinaryTool
    /\ ~cfg.Verbose
    /\ call.arg.content = Str(NumberedLines(13))
    /\ Len(call.result) = 11
    /\ call.result[10] = TextLine(<<"10">>)
    /\ call.result[11] = MoreLines(3)

Summarized == call.fn = "getMessageSummary" /\ call.done

\* text occurs in whole as a run of characters.
Contains(whole, text) ==
    \E i \in 0..(Len(whole) - Len(text)) : SubSeq(whole, i + 1, i + Len(text)) = text

\* C23: the summary of a message with a Read or Write tool_use block whose
\* input has the file_path P contains "[Tool: <name>]" and contains P, and
\* that of a Bash tool_use block contains "[Tool: Bash]" and the command.
C23_SummaryShowsFilePath ==
    Summarized =>
        \A k \in 1..Len(extractContent(call.arg)) :
            LET item == extractContent(call.arg)[k]
            IN  (item.type = TypeToolUse /\ item.name.kind = "string" /\ item.input.kind = "map") =>
                    /\ Contains(call.result, ToolTag(item.name.chars))
                    /\ (item.name.chars \in {Read, Write} /\ item.input.file_path.kind = "string") =>
                           Contains(call.result, item.input.file_path.chars)
                    /\ (item.name.chars = Bash /\ item.input.command = Str(Ls)) =>
                           Contains(call.result, Ls)

(***************************************************************************)
(* Properties of the glob functions (checked under SpecGlob)               *)
(***************************************************************************)
\* C16: applyToolFilters is false when the name matches an exclude pattern,
\* also when it matches an include pattern too; otherwise it is true when the
\* include list is empty and, when it is not, iff the name matches one of
\* its patterns.
C16_ExcludeBeatsInclude ==
    (glob.fn = "applyToolFilters" /\ glob.result # "unset") =>
        glob.result =
            Answer(IF \E p \in cfg.ToolExclude : matchGlobPattern(p, glob.str) THEN FALSE
                   ELSE IF cfg.ToolFilter = {} THEN TRUE
                   ELSE \E p \in cfg.ToolFilter : matchGlobPattern(p, glob.str))

\* A name that matches an include and an exclude pattern is rejected.
C16_Witness ==
    /\ glob.fn = "applyToolFilters"
    /\ glob.str = MultiEdit
    /\ cfg.ToolFilter = {PatStarEdit}
    /\ cfg.ToolExclude = {PatStar}
    /\ glob.result = "false"

\* A pattern character matches a run of characters of the string.
CharMatches(c, run) ==
    CASE c = "*" -> TRUE
      [] c = "?" -> Len(run) = 1
      [] OTHER -> run = <<c>>

\* The whole string is cut into one run per pattern character, each matched
\* by its character: * any run, ? one character, another character itself.
GlobMatches(pattern, str) ==
    \E cut \in [0..Len(pattern) -> 0..Len(str)] :
        /\ cut[0] = 0
        /\ cut[Len(pattern)] = Len(str)
        /\ \A i \in 1..Len(pattern) :
              /\ cut[i - 1] <= cut[i]
              /\ CharMatches(pattern[i], SubSeq(str, cut[i - 1] + 1, cut[i]))

\* The examples of TestMatchGlobPattern that C17 names.
GlobExamples ==
    /\ matchGlobPattern(<<>>, <<>>) /\ ~matchGlobPattern(<<>>, <<"s">>)
    /\ matchGlobPattern(PatStar, <<>>) /\ matchGlobPattern(PatStar, Editor)
    /\ matchGlobPattern(PatStarEdit, MultiEdit)
    /\ matchGlobPattern(PatStarEdit, Edit)
    /\ ~matchGlobPattern(PatStarEdit, Editor)
    /\ matchGlobPattern(<<"T", "o", "d", "o", "*">>, <<"T", "o", "d", "o", "W", "r", "i", "t", "e">>)
    /\ ~matchGlobPattern(<<"T", "o", "d", "o", "*">>, <<"M", "y", "T", "o", "d", "o">>)
    /\ matchGlobPattern(<<"t", "e", "s", "t", "?">>, <<"t", "e", "s", "t", "1">>)
    /\ ~matchGlobPattern(<<"t", "e", "s", "t", "?">>, <<"t", "e", "s", "t", "1", "2">>)

\* C17: matchGlobPattern answers, for every pattern and string, whether the
\* whole string matches the pattern, * standing for any run of characters,
\* ? for exactly one character and another character for itself; and the
\* named examples come out as stated.
C17_GlobMatchesWholeString ==
    (glob.fn = "matchGlobPattern" /\ glob.result # "unset") =>
        /\ glob.result = Answer(GlobMatches(glob.pattern, glob.str))
        /\ GlobExamples

(***************************************************************************)
(* Properties of the filter (checked under SpecFilter)                     *)
(***************************************************************************)
\* The record's message.content is an array that holds a tool_result block.
CarriesToolResult(e) ==
    /\ e.message = "object"
    /\ e.content = "array"
    /\ \E i \in 1..Len(e.blocks) : e.blocks[i].type = "tool_result"

\* The record's message.content is an array that holds a tool_use block.
CarriesToolUse(e) ==
    /\ e.message = "object"
    /\ e.content = "array"
    /\ \E i \in 1..Len(e.blocks) : e.blocks[i].type = "tool_use"

ToolFiltering == cfg.ToolFilter # {} \/ cfg.ToolExclude # {}

Decided == fResult # "unset"

\* The tool_use_id of the record's first tool_result block.
ResultId(e) == e.blocks[FirstToolResult(e.blocks)].tool_use_id

\* C3: with a tool filter set, every user record without a tool_result block
\* is rejected, whatever the role filter is.
C3_ToolFilterRejectsPlainUser ==
    (Decided /\ ToolFiltering /\ fEntry.type = "user" /\ ~CarriesToolResult(fEntry))
        => fResult = "reject"

\* C4: with a tool filter set, a user record with a tool_result block is
\* accepted iff its tool passes the tool predicate (an unresolved one iff
\* there is no include list), whatever the role filter is.
C4_ToolResultDecidedByToolAlone ==
    (Decided /\ ToolFiltering /\ fEntry.type = "user" /\ CarriesToolResult(fEntry))
        => (fResult = "accept" <=>
               IF ResultId(fEntry) \in DOMAIN fMap
               THEN applyToolFilters(fMap[ResultId(fEntry)], cfg.ToolFilter, cfg.ToolExclude)
               ELSE cfg.ToolFilter = {})

\* Some tool_use block of the record has a tool name that passes the predicate.
SomeToolUsePasses(e) ==
    \E i \in 1..Len(e.blocks) :
        /\ e.blocks[i].type = "tool_use"
        /\ applyToolFilters(getToolName(e.blocks[i], fMap), cfg.ToolFilter, cfg.ToolExclude)

\* C5 as stated: with a tool filter set, an assistant record is accepted iff
\* it has no tool_use block or one of its tool_use blocks passes.
C5_AssistantTextPassesThrough ==
    (Decided /\ ToolFiltering /\ fEntry.type = "assistant")
        => (fResult = "accept" <=> (~CarriesToolUse(fEntry) \/ SomeToolUsePasses(fEntry)))

\* C5 as amended: with a tool filter set, an assistant record is accepted iff
\* its message is not an object, or its content is not an array, or one of the
\* array's tool_use blocks passes; a content array without tool_use blocks
\* (text blocks only, or empty) is rejected.
C5_AssistantNeedsPassingTool ==
    (Decided /\ ToolFiltering /\ fEntry.type = "assistant")
        => (fResult = "accept" <=>
               \/ fEntry.message # "object"
               \/ fEntry.content # "array"
               \/ SomeToolUsePasses(fEntry))

C5_Witness ==
    /\ Decided
    /\ cfg.ToolFilter = {Bash}
    /\ fEntry.type = "assistant"
    /\ fEntry.content = "array"
    /\ fEntry.blocks = <<TextBlock>>
    /\ fResult = "reject"

\* The role a record is matched under: "tool" for a user record with a
\* tool_result block, "user" for any other user record, else its type.
EffectiveRole(e) ==
    IF e.type = "user"
    THEN IF CarriesToolResult(e) THEN "tool" ELSE "user"
    ELSE e.type

\* C6: without tool filters a record is accepted iff the role filter is empty
\* or holds the record's effective role.
C6_RoleFiltering ==
    (Decided /\ ~ToolFiltering)
        => (fResult = "accept" <=> (cfg.Role = {} \/ EffectiveRole(fEntry) \in cfg.Role))

C6_Witness ==
    /\ Decided
    /\ ~ToolFiltering
    /\ cfg.Role = {"user"}
    /\ fEntry.type = "user"
    /\ CarriesToolResult(fEntry)
    /\ fResult = "reject"

\* C24: with the role filter {tool} and the tool filter {Bash}, every
\* accepted record is a tool result that resolves to the tool Bash (a user
\* record carrying a tool_result, or a record of type "tool"); no assistant
\* record and no plain user record is accepted.
C24_OnlyBashToolResults ==
    (Decided /\ cfg.Role = {"tool"} /\ cfg.ToolFilter = {Bash} /\ cfg.ToolExclude = {}
     /\ fResult = "accept") =>
        \/ /\ fEntry.type = "user"
           /\ CarriesToolResult(fEntry)
           /\ MapGet(fMap, ResultId(fEntry)) = Bash
        \/ /\ fEntry.type = "tool"
           /\ MapGet(fMap, fEntry.parentMessageId) = Bash

(***************************************************************************)
(* Properties of the correlation table (checked under SpecCollect)         *)
(***************************************************************************)
Tables == <<toolUseMap, toolInputMap>>

Observed == pc \in {"observed", "observed_again"}

\* C11: observing the same assistant record a second time in a row leaves
\* both mappings as the first observation left them.
C11_ObserveTwiceIsObserveOnce ==
    pc = "observed_again" => Tables = before

C11_Witness ==
    /\ pc = "observed_again"
    /\ fEntry.type = "assistant"
    /\ fEntry.blocks = <<ToolUse("t1", Bash, "ls")>>
    /\ toolUseMap = MapPut(EmptyMap, "t1", Bash)
    /\ toolInputMap = MapPut(EmptyMap, "t1", "ls")

\* What the observation of one content element does according to C12: only a
\* tool_use block with both an id and a name changes anything.
StatedBlock(m, maps) ==
    IF m.type = "tool_use" /\ m.id # NoStr /\ m.name # NoName
    THEN << MapPut(maps[1], m.id, m.name),
            IF m.input # NoInput THEN MapPut(maps[2], m.id, m.input) ELSE maps[2] >>
    ELSE maps

RECURSIVE StatedFrom(_, _, _)
StatedFrom(blocks, i, maps) ==
    IF i > Len(blocks) THEN maps
    ELSE StatedFrom(blocks, i + 1, StatedBlock(blocks[i], maps))

StatedObserve(entry, maps) ==
    IF entry.type = "assistant" /\ entry.message = "object" /\ entry.content = "array"
    THEN StatedFrom(entry.blocks, 1, maps)
    ELSE maps

\* C12: observing a record sets idToName[id] and, if input is an object,
\* idToInput[id] for the tool_use blocks of an assistant record that carry
\* both an id and a name, and changes nothing else; a tool_use block lacking
\* id or name, another block and another record type change nothing.
C12_OnlyNamedToolUseChangesTable ==
    pc = "observed" => Tables = StatedObserve(fEntry, before)

\* C13 as stated: a key of either mapping is never removed and keeps the
\* value it had.
C13_KeysKeepFirstValue ==
    Observed =>
        /\ \A k \in DOMAIN before[1] : k \in DOMAIN toolUseMap /\ toolUseMap[k] = before[1][k]
        /\ \A k \in DOMAIN before[2] : k \in DOMAIN toolInputMap /\ toolInputMap[k] = before[2][k]

\* The observed record is an assistant record with a tool_use block for this
\* id that carries this name (this input).
Renames(e, k, name) ==
    /\ e.type = "assistant"
    /\ \E i \in 1..Len(e.blocks) :
          e.blocks[i].type = "tool_use" /\ e.blocks[i].id = k /\ e.blocks[i].name = name

Reinputs(e, k, input) ==
    /\ e.type = "assistant"
    /\ \E i \in 1..Len(e.blocks) :
          e.blocks[i].type = "tool_use" /\ e.blocks[i].id = k /\ e.blocks[i].input = input

\* No tool_use block of the record gives a known id another name or input.
ReusesNoId(e, maps) ==
    \A i \in 1..Len(e.blocks) :
        (e.blocks[i].type = "tool_use" /\ e.blocks[i].id # NoStr) =>
            /\ (e.blocks[i].id \in DOMAIN maps[1] /\ e.blocks[i].name # NoName)
                  => e.blocks[i].name = maps[1][e.blocks[i].id]
            /\ (e.blocks[i].id \in DOMAIN maps[2] /\ e.blocks[i].input # NoInput)
                  => e.blocks[i].input = maps[2][e.blocks[i].id]

\* C13 as amended: a key of either mapping is never removed; its value is
\* replaced only by the name (input) of a tool_use block with the same id in
\* the observed assistant record, the last write winning; when no observed
\* block gives a known id another name or input every key keeps its value.
C13_KeysKeptLastWriteWins ==
    Observed =>
        /\ \A k \in DOMAIN before[1] :
              /\ k \in DOMAIN toolUseMap
              /\ toolUseMap[k] # before[1][k] => Renames(fEntry, k, toolUseMap[k])
        /\ \A k \in DOMAIN before[2] :
              /\ k \in DOMAIN toolInputMap
              /\ toolInputMap[k] # before[2][k] => Reinputs(fEntry, k, toolInputMap[k])
        /\ ReusesNoId(fEntry, before) =>
              /\ \A k \in DOMAIN before[1] : toolUseMap[k] = before[1][k]
              /\ \A k \in DOMAIN before[2] : toolInputMap[k] = before[2][k]

\* An id named Bash is given the name Edit by a later record.
C13_Witness ==
    /\ pc = "observed"
    /\ "t1" \in DOMAIN before[1]
    /\ before[1]["t1"] = Bash
    /\ toolUseMap["t1"] = Edit

(***************************************************************************)
(* Properties of the three processing modes (checked under Spec)           *)
(***************************************************************************)
Bytes(f) == {f[k] : k \in 1..Len(f)}

\* The whole JSON text of line i is in f.
HoldsLine(f, i) == Piece(i, "tail") \in Bytes(f)

RECURSIVE DecodedUpTo(_, _)
DecodedUpTo(f, n) ==
    IF n = 0 THEN <<>>
    ELSE DecodedUpTo(f, n - 1) \o
         (IF HoldsLine(f, n) /\ script[n] # "Malformed"
          THEN <<CatalogueEntry(script[n], n)>> ELSE <<>>)

\* The records of the lines of f that decode, in file order, where f is the
\* beginning of the writer's output.
DecodedLines(f) == DecodedUpTo(f, Len(script))

\* Where, in a sequence of records, a named tool_use block with this id is.
NamedUses(es, id) ==
    UNION {{<<i, j>> : j \in {k \in 1..Len(es[i].blocks) :
                                /\ es[i].type = "assistant"
                                /\ es[i].message = "object"
                                /\ es[i].content = "array"
                                /\ es[i].blocks[k].type = "tool_use"
                                /\ es[i].blocks[k].id = id
                                /\ es[i].blocks[k].name # NoName}} :
           i \in 1..Len(es)}

LastOf(S) ==
    CHOOSE p \in S : \A q \in S : q[1] < p[1] \/ (q[1] = p[1] /\ q[2] <= p[2])

\* The name the records give to an id: that of the last named tool_use block
\* with the id (the only one, when ids are not reused).
NameGiven(es, id) ==
    LET p == LastOf(NamedUses(es, id)) IN es[p[1]].blocks[p[2]].name

AllIds(es) == UNION {{es[i].blocks[j].id : j \in 1..Len(es[i].blocks)} : i \in 1..Len(es)}

\* The id -> name table that the records determine.
NamesGiven(es) ==
    [id \in {x \in AllIds(es) : NamedUses(es, x) # {}} |-> NameGiven(es, id)]

Rendered(i) == \E k \in 1..Len(out) : out[k].uuid = i

InFileOrder == \A j, k \in 1..Len(out) : j < k => out[j].uuid < out[k].uuid

\* What the scanner has returned so far of a file read from its beginning.
Consumed == SubSeq(file, 1, fpos - Len(sbuf))

\* C1: in buffered mode nothing is rendered before the whole file is read, a
\* rendered tool result whose id is named by a tool_use block anywhere in the
\* file carries that name, and such a tool result is rendered iff the filter
\* accepts it under that name.
C1_BufferedResolvesAnywhere ==
    mode = "buffered" =>
        LET es == DecodedLines(file) IN
        /\ out # <<>> => (eof /\ entries = es)
        /\ \A k \in 1..Len(out) :
              LET e == CatalogueEntry(script[out[k].uuid], out[k].uuid) IN
              (out[k].role = "TOOL" /\ NamedUses(es, ResultId(e)) # {})
                  => out[k].tool = NameGiven(es, ResultId(e))
        /\ pc = "done" =>
              \A i \in 1..Len(es) :
                  (CarriesToolResult(es[i]) /\ NamedUses(es, ResultId(es[i])) # {})
                      => (Rendered(es[i].uuid) <=>
                             shouldDisplayEntryWithToolInfo(es[i].type, es[i], NamesGiven(es)))

\* A tool result rendered with the name that a later line of the file gives.
C1_Witness ==
    /\ mode = "buffered"
    /\ pc = "done"
    /\ script = <<"UserResult", "AsstBash">>
    /\ cfg.ToolFilter = {Bash}
    /\ \E k \in 1..Len(out) : out[k].uuid = 1 /\ out[k].role = "TOOL" /\ out[k].tool = Bash

RECURSIVE CorrelateAll(_, _, _)
CorrelateAll(es, i, maps) ==
    IF i > Len(es) THEN maps ELSE CorrelateAll(es, i + 1, Correlate(es[i], maps))

\* lastTimestamp after the first n records were displayed with this table.
RECURSIVE TimestampAll(_, _, _)
TimestampAll(es, n, maps) ==
    IF n = 0 THEN ZeroTime
    ELSE timestampAfterDisplay(es[n], maps[1], TimestampAll(es, n - 1, maps))

RECURSIVE DisplayAll(_, _, _)
DisplayAll(es, n, maps) ==
    IF n = 0 THEN <<>>
    ELSE DisplayAll(es, n - 1, maps) \o
         displayEntryWithToolInfo(es[n], maps[1], maps[2], TimestampAll(es, n - 1, maps))

\* The output of buffered mode on a file that holds f and does not change.
BufferedOutput(f) ==
    LET es == DecodedLines(f)
    IN  DisplayAll(es, Len(es), CorrelateAll(es, 1, <<EmptyMap, EmptyMap>>))

\* Follow mode has displayed the history and not yet found new content.
BeforePolling == mode = "follow" /\ pc = "poll" /\ statSize = 0

\* C2: when follow mode enters its poll loop it has printed what buffered mode
\* prints for the file content its history pass read (the whole file, when
\* the file did not change).
C2_FollowHistoryEqualsBuffered ==
    /\ (mode = "buffered" /\ pc = "done") => out = BufferedOutput(file)
    /\ BeforePolling => out = BufferedOutput(SubSeq(file, 1, currentPos))

C2_Witness ==
    /\ BeforePolling
    /\ currentPos = Len(file)
    /\ file = Stream
    /\ Len(out) = Len(script)
    /\ Len(script) = MaxLines

\* lastTimestamp after the first n records were displayed one by one.
RECURSIVE StreamingTimestamp(_, _)
StreamingTimestamp(es, n) ==
    IF n = 0 THEN ZeroTime
    ELSE timestampAfterDisplay(es[n], NamesGiven(SubSeq(es, 1, n)),
                               StreamingTimestamp(es, n - 1))

RECURSIVE StreamingOutput(_, _)
StreamingOutput(es, n) ==
    IF n = 0 THEN <<>>
    ELSE StreamingOutput(es, n - 1) \o
         displayEntryWithToolInfo(es[n], NamesGiven(SubSeq(es, 1, n)), EmptyMap,
                                  StreamingTimestamp(es, n - 1))

\* C7: in streaming mode the output is, at every moment, the rendering of the
\* lines read so far, each filtered and labelled with the names given by the
\* lines up to it and no others, once and in order.
C7_StreamingSinglePass ==
    mode = "streaming" =>
        LET es == DecodedLines(Consumed) IN
        /\ out = StreamingOutput(es, Len(es))
        /\ InFileOrder

\* tool_use t1/Bash, then tool_result t1, with the tool filter Bash.
C7_Witness ==
    /\ mode = "streaming"
    /\ pc = "done"
    /\ script = <<"AsstBash", "UserResult">>
    /\ cfg.ToolFilter = {Bash}
    /\ cfg.Role = {}
    /\ Len(out) = 2
    /\ out[1].uuid = 1 /\ out[1].role = "ASSISTANT" /\ out[1].tool = EmptyName
    /\ out[2].uuid = 2 /\ out[2].role = "TOOL" /\ out[2].tool = Bash

\* Line i is in the file with its newline, wholly before the offset pos.
CompleteBefore(i, pos) ==
    \E k \in 1..pos : k <= Len(file) /\ file[k] = NL /\ k > 1 /\ file[k - 1] = Piece(i, "tail")

NoFilter == cfg.Role = {} /\ cfg.ToolFilter = {} /\ cfg.ToolExclude = {}

\* C8: in follow mode every line that is in the file with its newline is
\* rendered at most once, and the rendered lines are in file order.
C8_TailExactlyOnce ==
    mode = "follow" =>
        /\ \A i \in 1..Len(script) :
              CompleteBefore(i, Len(file))
                  => Cardinality({k \in 1..Len(out) : out[k].uuid = i}) <= 1
        /\ \A j, k \in 1..Len(out) : j < k => out[j].uuid <= out[k].uuid

\* C9: in follow mode the stored offset never lies inside a line, and every
\* line that is complete before the offset has been rendered, once.
C9_PartialLineLeftUnconsumed ==
    (mode = "follow" /\ pc = "poll") =>
        /\ currentPos = 0 \/ file[currentPos] = NL
        /\ NoFilter =>
              \A i \in 1..Len(script) :
                  (CompleteBefore(i, currentPos) /\ script[i] # "Malformed")
                      => Cardinality({k \in 1..Len(out) : out[k].uuid = i}) = 1

\* A step that reads a line which does not decode.
MalformedLineStep ==
    /\ pc \in {"streaming", "first_pass", "discovery", "tail"}
    /\ Scan.ok
    /\ ~DecodeOK(Scan.tok)
    /\ file' = file

\* C10: reading a line that does not decode changes no table, not the entry
\* list, not the output and not the result, in every mode; and what buffered
\* and streaming mode print is a function of the lines that decode.
C10_MalformedLineSkipped ==
    /\ [][MalformedLineStep =>
             UNCHANGED <<toolUseMap, toolInputMap, bufUseMap, bufInputMap, entries, out, lastTimestamp, err, pc>>]_vars
    /\ []((mode = "buffered" /\ pc = "done") =>
             (err = "nil" /\ out = BufferedOutput(file)))
    /\ []((mode = "streaming" /\ pc = "done") =>
             (err = "nil" /\ out = StreamingOutput(DecodedLines(file), Len(DecodedLines(file)))))

\* A line after a malformed line has been rendered.
C10_Witness ==
    /\ pc = "done"
    /\ script = <<"Malformed", "UserPlain">>
    /\ Len(out) = 1
    /\ out[1].uuid = 2 /\ out[1].role = "USER" /\ out[1].tool = EmptyName
    /\ err = "nil"

(***************************************************************************)
(* Properties of streaming and buffered mode (checked under SpecBatch)     *)
(***************************************************************************)
\* The records handed to displayEntryWithToolInfo so far, in that order.
Displayed ==
    IF mode = "streaming" THEN DecodedLines(Consumed) ELSE SubSeq(entries, 1, di - 1)

\* The filter's answer for record i of es when it was displayed: in streaming
\* mode with the names given up to it, in buffered mode with the whole table.
AcceptedAt(es, i) ==
    shouldDisplayEntryWithToolInfo(es[i].type, es[i],
        IF mode = "streaming" THEN NamesGiven(SubSeq(es, 1, i)) ELSE bufUseMap)

\* A record for which displayEntryWithToolInfo has something to print.
Prints(e) == cfg.OutputFormat = "json" \/ (e.type \in {"user", "assistant"} /\ e.message = "object")

RECURSIVE AcceptedLines(_, _)
AcceptedLines(es, n) ==
    IF n = 0 THEN <<>>
    ELSE AcceptedLines(es, n - 1) \o (IF AcceptedAt(es, n) THEN <<es[n].uuid>> ELSE <<>>)

RECURSIVE PrintingLines(_, _)
PrintingLines(es, n) ==
    IF n = 0 THEN <<>>
    ELSE PrintingLines(es, n - 1) \o
         (IF AcceptedAt(es, n) /\ Prints(es[n]) THEN <<es[n].uuid>> ELSE <<>>)

LinesOf(items) == [k \in 1..Len(items) |-> items[k].uuid]

\* When a mode has returned it has displayed every line that decodes.
AllDisplayed == (pc = "done" /\ err = "nil") => Displayed = DecodedLines(file)

\* C28 as stated: in buffered and streaming mode the rendered records are
\* exactly the decoded lines that the filter accepts, in line order, none
\* twice, none dropped.
C28_RenderedAreTheAccepted ==
    /\ LinesOf(out) = AcceptedLines(Displayed, Len(Displayed))
    /\ AllDisplayed

\* C28 as amended: in buffered and streaming mode the rendered records are
\* exactly the decoded lines that the filter accepts and that have something
\* to print (in text mode a record of type user or assistant whose message is
\* an object, in JSON mode every record), in line order, none twice, none
\* dropped.
C28_RenderedAreTheAcceptedThatPrint ==
    /\ LinesOf(out) = PrintingLines(Displayed, Len(Displayed))
    /\ AllDisplayed
    /\ InFileOrder

\* A summary record is accepted and prints nothing; the line after it prints.
C28_Witness ==
    /\ mode = "buffered"
    /\ pc = "done"
    /\ cfg.OutputFormat = "text"
    /\ cfg.Role = {}
    /\ script = <<"Summary", "UserPlain">>
    /\ AcceptedLines(Displayed, 2) = <<1, 2>>
    /\ LinesOf(out) = <<2>>

\* The accepted records displayed so far whose timestamp parses.
RECURSIVE LastStamp(_, _)
LastStamp(es, n) ==
    IF n = 0 THEN ZeroTime
    ELSE IF AcceptedAt(es, n) /\ es[n].timestamp # NoTime THEN es[n].timestamp[1]
    ELSE LastStamp(es, n - 1)

\* C30: in text mode the cursor is the timestamp of the last filter-accepted
\* record displayed so far whose timestamp parses, whether or not that record
\* printed anything, and records whose timestamp does not parse leave it as
\* it was; in JSON mode the cursor stays at the zero time.
C30_CursorFollowsAcceptedStamps ==
    /\ cfg.OutputFormat = "text" => lastTimestamp = LastStamp(Displayed, Len(Displayed))
    /\ cfg.OutputFormat = "json" => lastTimestamp = ZeroTime

\* A summary record, which prints nothing, has moved the cursor, and the
\* record without a timestamp before it has not.
C30_Witness ==
    /\ mode = "streaming"
    /\ pc = "done"
    /\ cfg.OutputFormat = "text"
    /\ cfg.Role = {}
    /\ script = <<"UserUnstamped", "Summary">>
    /\ LinesOf(out) = <<1>>
    /\ lastTimestamp = 2

\* A reader decodes an assistant line.
AssistantLineStep ==
    /\ pc \in {"streaming", "first_pass", "discovery", "tail"}
    /\ Scan.ok
    /\ DecodeOK(Scan.tok)
    /\ Decode(Scan.tok).type = "assistant"
    /\ file' = file

\* The ids that the named tool_use blocks of a record carry.
NamedIds(e) ==
    {e.blocks[k].id : k \in {j \in 1..Len(e.blocks) :
        e.blocks[j].type = "tool_use" /\ e.blocks[j].id # NoStr /\ e.blocks[j].name # NoName}}

\* The lines that a reader of the whole file has seen when it displays line i:
\* in buffered mode all of them, in streaming mode those up to line i.
SeenAt(i) == IF mode = "buffered" THEN DecodedLines(file) ELSE DecodedUpTo(file, i)

\* C26: in every mode, reading an assistant record puts its named tool_use
\* blocks into the table in use, whatever the filter configuration is and
\* whether or not the record is displayed; so in streaming and buffered mode a
\* displayed tool result carries the name its tool_use block gave, also when
\* the assistant record was filtered out.
C26_CorrelationIgnoresFilter ==
    /\ [][AssistantLineStep =>
             LET e == Decode(Scan.tok)
                 table == IF pc = "first_pass" THEN bufUseMap' ELSE toolUseMap'
             IN  \A id \in NamedIds(e) :
                     /\ id \in DOMAIN table
                     /\ table[id] = NameGiven(<<e>>, id)]_vars
    /\ [](mode \in {"streaming", "buffered"} =>
             \A k \in 1..Len(out) :
                 LET e == CatalogueEntry(script[out[k].uuid], out[k].uuid)
                     es == SeenAt(out[k].uuid)
                 IN  (out[k].role = "TOOL" /\ NamedUses(es, ResultId(e)) # {})
                         => out[k].tool = NameGiven(es, ResultId(e)))

\* With the role filter {tool} the assistant line is not displayed and the
\* tool result after it is displayed with the tool's name.
C26_Witness ==
    /\ mode = "streaming"
    /\ pc = "done"
    /\ script = <<"AsstBash", "UserResult">>
    /\ cfg.Role = {"tool"}
    /\ cfg.ToolFilter = {}
    /\ Len(out) = 1
    /\ out[1].uuid = 2 /\ out[1].role = "TOOL" /\ out[1].tool = Bash
    /\ toolUseMap = MapPut(EmptyMap, "t1", Bash)

\* The ids of the named tool_use blocks of the assistant lines before line k
\* that have been rendered (and so were decoded whole).
NamedIdsBefore(k) ==
    UNION {{CatalogueEntry(script[j], j).blocks[b].id :
                b \in {c \in 1..Len(CatalogueEntry(script[j], j).blocks) :
                          LET m == CatalogueEntry(script[j], j).blocks[c]
                          IN  m.type = "tool_use" /\ m.id # NoStr /\ m.name # NoName}} :
           j \in {i \in 1..(k - 1) : script[i] \in {"AsstBash", "AsstEdit"} /\ Rendered(i)}}

\* A step of the poll loop that renders a tool-result line.
TailRendersResult ==
    /\ mode = "follow"
    /\ pc = "tail"
    /\ Len(out') = Len(out) + 1
    /\ script[out'[Len(out')].uuid] = "UserResult"

\* C25: in follow mode, whenever the poll loop renders a tool-result line,
\* every named tool_use block of every assistant line located earlier in the
\* file and rendered before it is in the table the poll loop uses,
\* lines appended while the history was being processed included.
C25_TailTableWarm ==
    [][TailRendersResult => NamedIdsBefore(out'[Len(out')].uuid) \subseteq DOMAIN toolUseMap']_vars

(***************************************************************************)
(* Properties of failing input/output (checked under SpecFaults, and C20   *)
(* under SpecPolling)                                                      *)
(***************************************************************************)
\* The function has returned an error.
Failed == pc = "done" /\ err \notin {"running", "nil"}

\* C18: a line longer than the scan buffer is fatal: no line after it is
\* ever decoded or rendered, and a function that has read it whole and
\* returned has returned an error.
C18_OversizedLineIsFatal ==
    \A i \in 1..Len(script) :
        script[i] = "Oversized" =>
            /\ \A k \in 1..Len(out) : out[k].uuid < i
            /\ \A k \in 1..Len(entries) : entries[k].uuid < i
            /\ (pc = "done" /\ HoldsLine(file, i)) => Failed

\* C19: a failing stat or seek in the poll loop does not end the run.
C19_StatSeekFailureRetried ==
    (mode = "follow" /\ pc = "done") =>
        err \notin {"getting file stats", "seeking to position"}

\* C27: processBuffered prints nothing before its first pass has ended, and
\* when the first pass ends with a scanner error it returns that error with
\* nothing printed, the records before the failing line included; this holds
\* for buffered mode and for the history of follow mode.
C27_BufferedAllOrNothing ==
    /\ pc = "first_pass" => out = <<>>
    /\ mode = "buffered" =>
          /\ Failed => (out = <<>> /\ err = "bufio.Scanner: token too long")
          /\ out # <<>> => (pc \in {"second_pass", "done"} /\ err \in {"running", "nil"})

\* A record was decoded before the line that does not fit, and is not printed.
C27_Witness ==
    /\ mode = "buffered"
    /\ script = <<"UserPlain", "Oversized">>
    /\ Failed
    /\ Len(entries) = 1
    /\ out = <<>>

InPollLoop == mode = "follow" /\ pc \in {"poll", "tail", "sleep"}

\* A step of the reader, not of the writer.
ReaderStep == file' = file

\* C29: the offset of follow mode never decreases; once the history is
\* displayed it changes only at the end of a poll that saw a file larger than
\* it, and becomes the size that poll saw; a poll that sees a file no larger
\* than the offset (as after a truncation) reads and displays nothing.
C29_OffsetNeverDecreases ==
    /\ [][currentPos' >= currentPos]_vars
    /\ [][(InPollLoop /\ currentPos' # currentPos) =>
             (pc = "tail" /\ statSize > currentPos /\ currentPos' = statSize)]_vars
    /\ [](pc = "tail" => statSize > currentPos)
    /\ [][(pc = "poll" /\ Len(file) <= currentPos /\ ReaderStep) =>
             (pc' = "sleep" /\ UNCHANGED <<currentPos, fpos, sbuf, out, lastTimestamp, tableVars>>)]_vars

\* After something was displayed, a poll has seen the file shorter than the
\* offset and has gone to sleep.
C29_Witness ==
    /\ mode = "follow"
    /\ pc = "sleep"
    /\ statSize < currentPos
    /\ Len(file) < currentPos
    /\ out # <<>>

\* C20: processFollowMode returns only with an error; its poll loop is left
\* only by returning one; after every sleep it polls again, and every poll
\* ends in the sleep unless it returns an error, whether or not the file grew.
C20_PollLoopNeverEnds ==
    /\ []((mode = "follow" /\ pc = "done") => Failed)
    /\ [][InPollLoop => (InPollLoop' \/ Failed')]_vars
    /\ []((mode = "follow" /\ pc = "sleep") => <>(pc = "poll"))
    /\ []((mode = "follow" /\ pc = "poll") => <>(pc = "sleep" \/ Failed))

\* The loop sleeps after a poll of a file that is read to its end.
C20_Witness ==
    /\ mode = "follow"
    /\ pc = "sleep"
    /\ Len(script) = MaxLines
    /\ file = Stream
    /\ statSize = Len(file)
    /\ currentPos = Len(file)

====
